---- MODULE Spec2Model ----
(***************************************************************************)
(* Finger-controlled snake: the trailing chain (game/snake.py), the food   *)
(* items (game/food.py), the hand tracker (game/tracker.py) and the game   *)
(* controller with its camera thread (game/utils.py).                      *)
(*                                                                         *)
(* Numbers.  The program computes positions in floating point.  Here a     *)
(* coordinate of the chain is a fixed-point integer counting 1/Scale of a  *)
(* pixel and a velocity counts 1/VelScale of a pixel per tick; every       *)
(* division rounds to the nearest unit.  Finger positions and food         *)
(* positions are integer pixels, as in the program.  Comparisons of a      *)
(* distance with a threshold are made exactly, on the squares.  Time is    *)
(* counted in half seconds.                                                *)
(***************************************************************************)
EXTENDS Integers, Sequences, FiniteSets, TLC

\* ---------------------------------------------------------------- config.py
CAMERA_WIDTH == 640
CAMERA_HEIGHT == 480
GAME_WIDTH == 800
GAME_HEIGHT == 600
SNAKE_SEGMENT_SIZE == 14
INITIAL_LENGTH == 7
GROWTH_RATE == 2
FOOD_SIZE == 15
BONUS_FOOD_SIZE == 20
MIN_DISTANCE_TO_MOVE == 2
MAX_SPEED == 4
SEGMENT_SPACING == 5
COLLISION_THRESHOLD == 10
SELF_COLLISION_IGNORE == 5
WALL_COLLISION_MARGIN == 5
SMOOTHING_WINDOW == 15
FOOD_SPAWN_MARGIN == 50

\* ------------------------------------------------------------------ bounds
\* fixed-point units per pixel
Scale == 20
\* calls of Snake.update in the object-level specification
MaxUpdates == 9
\* calls other than a repeated Snake.update(target) in that specification
MaxEvents == 2
\* the game, every critical section one step: frames the camera thread
\* processes, half seconds the clock runs, key and quit events handled, and
\* ticks that move the chain
MaxPublish == 2
MaxTime == 2
MaxKeys == 1
MaxMoves == 1
\* one session played without key events: the same four
MaxPlayPublish == 2
MaxPlayTime == 1
MaxPlayMoves == 9
\* the two threads, every access to the slot one step: the same four
MaxLockPublish == 2
MaxLockTime == 1
MaxLockMoves == 1
\* the two threads with the game in its menu and the clock standing still:
\* frames
MaxHandoffPublish == 2
\* a session taken up three ticks before the chain closes on itself, played
\* without key events: frames, half seconds and moving ticks
MaxSessionPublish == 1
MaxSessionTime == 3
MaxSessionMoves == 3
\* the game until it is left, the clock standing still: frames and key events
MaxQuitPublish == 1
MaxQuitKeys == 2
\* pause and modal: publishes of camera_loop and key events handled
MaxPausePublish == 1
MaxPauseKeys == 2
\* the tracker alone: frames read by camera_loop
MaxTrackerPublish == 4
\* frames of a finger that comes to rest after its first frame
MaxRestPublish == 80
\* calls of Snake.update with one target 300 px from the reset head
MaxApproachUpdates == 135
\* the first session from its start, half a second before the first bonus
\* food is due: half seconds and moving ticks
MaxBonusTime == 30
MaxBonusMoves == 16
\* the item list: the time up to which the game-over screen is shown, in
\* half seconds
MaxItemsTime == 32
\* the score up to which a tick may eat, in each of these
MaxScore == 1
\* links of the chains handed to check_self_collision on its own
MaxChainLinks == 7
\* the rounding the fixed-point chain adds to the distance of two adjacent
\* points (units)
SpacingTol == 2
\* velocity units per pixel
VelScale == Scale * 100

\* the absent position (None)
NoPos == <<>>

\* the absent time (None); times are never negative
NoTime == 0 - 1

\* ------------------------------------------------------------- arithmetic
Abs(a) == IF a < 0 THEN -a ELSE a

Min(a, b) == IF a <= b THEN a ELSE b

Max(a, b) == IF a >= b THEN a ELSE b

\* a / b rounded to the nearest integer (b > 0)
RDiv(a, b) == (2 * a + b) \div (2 * b)

\* int(a / b): truncation toward zero (b > 0)
Trunc(a, b) == IF a >= 0 THEN a \div b ELSE -((-a) \div b)

RECURSIVE SqrtIter(_, _)
SqrtIter(n, x) ==
    LET y == (x + n \div x) \div 2
    IN  IF y >= x THEN x ELSE SqrtIter(n, y)

\* floor of the square root of n, by Newton's iteration from a guess that is
\* not below it
ISqrt(n, guess) == IF n <= 1 THEN n ELSE SqrtIter(n, guess)

\* math.hypot(dx, dy), rounded to the nearest unit
Hypot(dx, dy) ==
    LET s == dx * dx + dy * dy
        r == ISqrt(s, Abs(dx) + Abs(dy))
    IN  IF s - r * r > r THEN r + 1 ELSE r

\* math.hypot(dx, dy) < r, exactly
HypotLT(dx, dy, r) == dx * dx + dy * dy < r * r

\* math.hypot(dx, dy) > r, exactly
HypotGT(dx, dy, r) == dx * dx + dy * dy > r * r

\* a pixel position in fixed-point units
ToUnits(p) == <<p[1] * Scale, p[2] * Scale>>

\* ------------------------------------------------------------ game/snake.py
VARIABLES
    segments,               \* Snake.segments: the chain, head first (units)
    velocity,               \* Snake.velocity (velocity units)
    growth_pending,         \* Snake.growth_pending
    speed_boost_end_time,   \* Snake.speed_boost_end_time (half seconds)
    now                     \* time.time() (half seconds)

snakeVars == <<segments, velocity, growth_pending, speed_boost_end_time>>

\* a reset that lays the chain out downwards from the centre
reset_segments_vertical ==
    [i \in 1..INITIAL_LENGTH |->
        <<(GAME_WIDTH \div 2) * Scale,
          ((GAME_HEIGHT \div 2) + (i - 1) * SEGMENT_SPACING) * Scale>>]

\* Snake.reset: the chain of INITIAL_LENGTH points on the centre line
reset_segments ==
    [i \in 1..INITIAL_LENGTH |->
        <<((GAME_WIDTH \div 2) - (i - 1) * SEGMENT_SPACING) * Scale,
          (GAME_HEIGHT \div 2) * Scale>>]

\* Snake.get_max_speed at clock t with boost expiry e
get_max_speed(t, e) ==
    IF t < e THEN (MAX_SPEED * VelScale * 3) \div 2 ELSE MAX_SPEED * VelScale

\* a dead zone of half the radius
InDeadZoneHalf(head, target) ==
    HypotLT(2 * (target[1] * Scale - head[1]), 2 * (target[2] * Scale - head[2]),
            MIN_DISTANCE_TO_MOVE * Scale)

\* the dead-zone test of Snake.update: distance < MIN_DISTANCE_TO_MOVE
InDeadZone(head, target) ==
    HypotLT(target[1] * Scale - head[1], target[2] * Scale - head[2],
            MIN_DISTANCE_TO_MOVE * Scale)

\* a blend that keeps the whole of the old velocity (inertia 1.0) and adds
\* a fifth of the full speed at every distance (no ease-out)
NewVelocityUndamped(vel, head, target, max_speed) ==
    LET dx == target[1] * Scale - head[1]
        dy == target[2] * Scale - head[2]
        distance == Hypot(dx, dy)
        target_vel_x == RDiv(dx * max_speed, distance)
        target_vel_y == RDiv(dy * max_speed, distance)
    IN  <<RDiv(vel[1] * 10 + target_vel_x * 2, 10),
          RDiv(vel[2] * 10 + target_vel_y * 2, 10)>>

\* the velocity after the inertia blend of Snake.update
NewVelocity(vel, head, target, max_speed) ==
    LET dx == target[1] * Scale - head[1]
        dy == target[2] * Scale - head[2]
        distance == Hypot(dx, dy)
        \* speed = max_speed * min(distance / 100, 1.0)
        speed == RDiv(max_speed * Min(distance, 100 * Scale), 100 * Scale)
        \* target_vel = (dx / distance) * speed
        target_vel_x == RDiv(dx * speed, distance)
        target_vel_y == RDiv(dy * speed, distance)
    IN  <<RDiv(vel[1] * 8 + target_vel_x * 2, 10),
          RDiv(vel[2] * 8 + target_vel_y * 2, 10)>>

\* head + velocity
NewHead(head, vel) ==
    <<head[1] + RDiv(vel[1] * Scale, VelScale),
      head[2] + RDiv(vel[2] * Scale, VelScale)>>

\* a re-spacing step that keeps curr where it is instead of moving it onto
\* the circle of radius SEGMENT_SPACING around prev
KeepPointUnmoved(prev_seg, curr_seg) ==
    IF ~HypotLT(curr_seg[1] - prev_seg[1], curr_seg[2] - prev_seg[2],
                SEGMENT_SPACING * Scale)
    THEN curr_seg
    ELSE NoPos

\* one step of the re-spacing loop: the point kept for curr after prev,
\* or NoPos when curr is dropped
KeepPoint(prev_seg, curr_seg) ==
    LET dx_s == curr_seg[1] - prev_seg[1]
        dy_s == curr_seg[2] - prev_seg[2]
        dist == Hypot(dx_s, dy_s)
    IN  IF ~HypotLT(dx_s, dy_s, SEGMENT_SPACING * Scale) /\ dist > 0
        THEN <<prev_seg[1] + RDiv(dx_s * SEGMENT_SPACING * Scale, dist),
               prev_seg[2] + RDiv(dy_s * SEGMENT_SPACING * Scale, dist)>>
        ELSE NoPos

\* the re-spacing loop from curr = rest[1] on, prev_seg being the last point
\* of segments_to_keep: the points it appends to segments_to_keep
RECURSIVE RespaceAfter(_, _)
RespaceAfter(prev_seg, rest) ==
    IF rest = <<>> THEN <<>>
    ELSE LET kept == KeepPoint(prev_seg, Head(rest))
         IN  IF kept = NoPos
             THEN RespaceAfter(prev_seg, Tail(rest))
             ELSE <<kept>> \o RespaceAfter(kept, Tail(rest))

\* the re-spacing pass over the chain with its new head in front
Respace(segs) == <<segs[1]>> \o RespaceAfter(segs[1], Tail(segs))

\* the point appended behind the tail by the growth loop
NewTail(segs) ==
    LET tail == segs[Len(segs)]
    IN  IF Len(segs) >= 2
        THEN LET prev == segs[Len(segs) - 1]
                 dx_t == tail[1] - prev[1]
                 dy_t == tail[2] - prev[2]
                 dist == Hypot(dx_t, dy_t)
             IN  IF dist > 0
                 THEN <<tail[1] + RDiv(dx_t * SEGMENT_SPACING * Scale, dist),
                        tail[2] + RDiv(dy_t * SEGMENT_SPACING * Scale, dist)>>
                 ELSE <<tail[1], tail[2] + SEGMENT_SPACING * Scale>>
        ELSE <<tail[1], tail[2] + SEGMENT_SPACING * Scale>>

\* a growth step that appends one point at most (if in place of while)
GrowTailOnce(segs, target_length) ==
    IF Len(segs) < target_length THEN Append(segs, NewTail(segs)) ELSE segs

\* while len(self.segments) < target_length: append
RECURSIVE GrowTail(_, _)
GrowTail(segs, target_length) ==
    IF Len(segs) < target_length
    THEN GrowTail(Append(segs, NewTail(segs)), target_length)
    ELSE segs

\* an update that never pops the tail
TrimTailSkipped(segs, target_length) == segs

\* while len(self.segments) > target_length: pop
TrimTail(segs, target_length) ==
    IF Len(segs) > target_length
    THEN SubSeq(segs, 1, target_length)
    ELSE segs

\* Snake.update(target_pos): the chain and velocity after the call, and the
\* branch taken ("none": no target, "dead": dead zone, "moved": head inserted)
snake_update(segs, vel, growth, max_speed, target_pos) ==
    IF target_pos = NoPos
    THEN [segments |-> segs, velocity |-> vel, branch |-> "none"]
    ELSE IF InDeadZone(segs[1], target_pos)
    THEN [segments |-> segs, velocity |-> vel, branch |-> "dead"]
    ELSE LET v == NewVelocity(vel, segs[1], target_pos, max_speed)
             with_head == <<NewHead(segs[1], v)>> \o segs
             target_length == INITIAL_LENGTH + growth
         IN  [segments |-> TrimTail(GrowTail(Respace(with_head), target_length),
                                    target_length),
              velocity |-> v,
              branch   |-> "moved"]

\* Snake.check_self_collision
RECURSIVE AnyWithin(_, _, _)
AnyWithin(head, rest, threshold) ==
    IF rest = <<>> THEN FALSE
    ELSE IF HypotLT(head[1] - rest[1][1], head[2] - rest[1][2], threshold)
    THEN TRUE
    ELSE AnyWithin(head, Tail(rest), threshold)

\* a body check whose slice starts one point too early
check_self_collision_early(segs) ==
    IF Len(segs) <= SELF_COLLISION_IGNORE THEN FALSE
    ELSE AnyWithin(segs[1], SubSeq(segs, SELF_COLLISION_IGNORE, Len(segs)),
                   COLLISION_THRESHOLD * Scale)

check_self_collision(segs) ==
    IF Len(segs) <= SELF_COLLISION_IGNORE THEN FALSE
    ELSE AnyWithin(segs[1], SubSeq(segs, SELF_COLLISION_IGNORE + 1, Len(segs)),
                   COLLISION_THRESHOLD * Scale)

\* a wall check whose comparisons include the margin itself (<= and >=)
check_wall_collision_inclusive(segs) ==
    LET x == segs[1][1]
        y == segs[1][2]
    IN  \/ x <= WALL_COLLISION_MARGIN * Scale
        \/ x >= (GAME_WIDTH - WALL_COLLISION_MARGIN) * Scale
        \/ y <= WALL_COLLISION_MARGIN * Scale
        \/ y >= (GAME_HEIGHT - WALL_COLLISION_MARGIN) * Scale

\* Snake.check_wall_collision
check_wall_collision(segs) ==
    LET x == segs[1][1]
        y == segs[1][2]
    IN  \/ x < WALL_COLLISION_MARGIN * Scale
        \/ x > (GAME_WIDTH - WALL_COLLISION_MARGIN) * Scale
        \/ y < WALL_COLLISION_MARGIN * Scale
        \/ y > (GAME_HEIGHT - WALL_COLLISION_MARGIN) * Scale

\* ---------------------------------------------------------- game/tracker.py
\* the jump threshold of HandTracker.find_finger_position (camera pixels)
JUMP_THRESHOLD == 200

\* HandTracker.find_finger_position on a frame whose detector result is raw
\* (a camera point, or NoPos when no hand is found), with prev_position prev:
\* the returned point, the returned flag and the new prev_position
\* a tracker without the jump test: every found point is emitted and kept
find_finger_position_unfiltered(prev, raw) ==
    IF raw # NoPos
    THEN [pos |-> raw, detected |-> TRUE, prev_position |-> raw]
    ELSE [pos |-> prev, detected |-> FALSE, prev_position |-> prev]

\* a tracker whose reference point follows a rejected sample: the jump is
\* re-emitted as the previous point once, then accepted
find_finger_position_following(prev, raw) ==
    IF raw # NoPos
    THEN IF prev # NoPos
            /\ HypotGT(raw[1] - prev[1], raw[2] - prev[2], JUMP_THRESHOLD)
         THEN [pos |-> prev, detected |-> TRUE, prev_position |-> raw]
         ELSE [pos |-> raw, detected |-> TRUE, prev_position |-> raw]
    ELSE [pos |-> prev, detected |-> FALSE, prev_position |-> prev]

find_finger_position(prev, raw) ==
    IF raw # NoPos
    THEN IF prev # NoPos
            /\ HypotGT(raw[1] - prev[1], raw[2] - prev[2], JUMP_THRESHOLD)
         THEN [pos |-> prev, detected |-> TRUE, prev_position |-> prev]
         ELSE [pos |-> raw, detected |-> TRUE, prev_position |-> raw]
    ELSE [pos |-> prev, detected |-> FALSE, prev_position |-> prev]

\* ------------------------------------------------------------ game/utils.py
\* FingerSnakeGame.map_coordinates (CAMERA_MIRROR is not defined in config.py)
map_coordinates(camera_pos) ==
    LET game_x == Trunc(camera_pos[1] * GAME_WIDTH, CAMERA_WIDTH)
        game_y == Trunc(camera_pos[2] * GAME_HEIGHT, CAMERA_HEIGHT)
    IN  <<Max(SNAKE_SEGMENT_SIZE, Min(GAME_WIDTH - SNAKE_SEGMENT_SIZE, game_x)),
          Max(SNAKE_SEGMENT_SIZE, Min(GAME_HEIGHT - SNAKE_SEGMENT_SIZE, game_y))>>

\* deque(maxlen = SMOOTHING_WINDOW).append
HistoryAppend(history, new_pos) ==
    IF Len(history) >= SMOOTHING_WINDOW
    THEN Append(Tail(history), new_pos)
    ELSE Append(history, new_pos)

RECURSIVE WeightedSum(_, _, _)
WeightedSum(history, i, c) ==
    IF i > Len(history) THEN 0
    ELSE history[i][c] * i + WeightedSum(history, i + 1, c)

\* stage 1 of smooth_position: the weighted moving average (units); the
\* weights (i + 1) / len sum to (len + 1) / 2
WeightedAverage(history) ==
    LET n == Len(history)
        total == (n * (n + 1)) \div 2
    IN  <<RDiv(WeightedSum(history, 1, 1) * Scale, total),
          RDiv(WeightedSum(history, 1, 2) * Scale, total)>>

\* stage 2 of smooth_position: exponential smoothing with SMOOTHING_FACTOR
\* 0.15 (units)
ExpSmooth(smooth, averaged_pos) ==
    IF smooth = NoPos THEN averaged_pos
    ELSE <<RDiv(smooth[1] * 85 + averaged_pos[1] * 15, 100),
           RDiv(smooth[2] * 85 + averaged_pos[2] * 15, 100)>>

\* FingerSnakeGame.smooth_position(new_pos), new_pos not None: the new
\* position_history, the new smooth_pos and the returned integer point
smooth_position(history, smooth, new_pos) ==
    LET h == HistoryAppend(history, new_pos)
        sm == ExpSmooth(smooth, WeightedAverage(h))
    IN  [position_history |-> h,
         smooth_pos       |-> sm,
         pos              |-> <<Trunc(sm[1], Scale), Trunc(sm[2], Scale)>>]

\* ------------------------------------------------------------- game/food.py
\* half seconds: RegularFood.cooldown_time 0.5 s, BonusFood.cooldown_time
\* 10.0 s, BonusFood boost_duration 5.0 s
REGULAR_COOLDOWN == 1
BONUS_COOLDOWN == 20
BONUS_BOOST_DURATION == 10
REGULAR_SCORE == 1
BONUS_SCORE == 5
\* half seconds: the first bonus food comes 15 s after construction or
\* restart, the next ones 20 s to 30 s after the previous one
BONUS_FIRST_DELAY == 30
BONUS_MIN_INTERVAL == 40
BONUS_MAX_INTERVAL == 60
\* half seconds: the dwell time before a start (transition_delay 0.5 s)
TRANSITION_DELAY == 1
\* extra clearance and attempt cap of Food.respawn
RESPAWN_BUFFER == 10
RESPAWN_ATTEMPTS == 100

food_size(food) == IF food.is_bonus THEN BONUS_FOOD_SIZE ELSE FOOD_SIZE

food_score(food) == IF food.is_bonus THEN BONUS_SCORE ELSE REGULAR_SCORE

food_boost_duration(food) == IF food.is_bonus THEN BONUS_BOOST_DURATION ELSE 0

food_cooldown_time(food) == IF food.is_bonus THEN BONUS_COOLDOWN ELSE REGULAR_COOLDOWN

\* the points Food.spawn draws from: random.randint over the playfield inset
\* by FOOD_SPAWN_MARGIN, here a few of its points
SpawnPoints == {<<440, 300>>, <<470, 300>>, <<600, 450>>}

\* Food.__init__
NewFood(bonus, pos) ==
    [is_bonus |-> bonus, position |-> pos, visible |-> TRUE, respawn_timer |-> 0]

\* a test that looks at the head of the chain alone
ValidSpawnHeadOnly(pos, size, snake_segments) ==
    ~HypotLT(pos[1] * Scale - snake_segments[1][1],
             pos[2] * Scale - snake_segments[1][2],
             (SNAKE_SEGMENT_SIZE + size + RESPAWN_BUFFER) * Scale)

\* the validity test of one attempt of Food.respawn
ValidSpawn(pos, size, snake_segments) ==
    \A i \in 1..Len(snake_segments) :
        ~HypotLT(pos[1] * Scale - snake_segments[i][1],
                 pos[2] * Scale - snake_segments[i][2],
                 (SNAKE_SEGMENT_SIZE + size + RESPAWN_BUFFER) * Scale)

\* the positions Food.respawn can end with: a draw that passed the clearance
\* test, or, when some draw can be rejected, the unvalidated fallback draw
\* made once RESPAWN_ATTEMPTS draws in a row were rejected
RespawnPositions(size, snake_segments) ==
    LET valid == {pos \in SpawnPoints : ValidSpawn(pos, size, snake_segments)}
    IN  valid \cup (IF RESPAWN_ATTEMPTS = 0 \/ valid # SpawnPoints
                     THEN SpawnPoints ELSE {})

\* Food.respawn with the position drawn
food_respawn(food, pos, t) ==
    [food EXCEPT !.position = pos, !.visible = TRUE,
                 !.respawn_timer = t + food_cooldown_time(food)]

\* Food.update
food_update(food, t) ==
    IF ~food.visible /\ t >= food.respawn_timer
    THEN [food EXCEPT !.visible = TRUE]
    ELSE food

\* Food.check_collision
food_check_collision(food, snake_head) ==
    /\ food.visible
    /\ HypotLT(snake_head[1] - food.position[1] * Scale,
               snake_head[2] - food.position[2] * Scale,
               (food_size(food) + SNAKE_SEGMENT_SIZE \div 2) * Scale)

\* ------------------------------------------------------- the rest of state
VARIABLES
    \* HandTracker and the smoother (camera thread only)
    prev_position,          \* HandTracker.prev_position (camera pixels)
    position_history,       \* FingerSnakeGame.position_history (pixels)
    smooth_pos,             \* FingerSnakeGame.smooth_pos (units)
    \* camera_loop
    pc_cam,                 \* position of the camera thread
    ret,                    \* local ret of the last cap.read() (TRUE before it)
    tracker_new_pos,        \* find_finger_position: new_pos of the last frame
    cam_game_pos,           \* local game_pos
    cam_detected,           \* local detected
    \* the slot guarded by frame_lock
    frame_lock,             \* "free", or the thread holding it
    shared_finger_pos,
    shared_finger_detected,
    latest_overlay_detected,
    latest_frame_small,     \* number of the frame stored, 0 for None
    \* the simulation thread
    pc_sim,                 \* position of the main thread in run
    loc_finger_pos,         \* locals of update_from_shared_state
    loc_finger_detected,
    finger_detected,
    last_finger_pos,
    game_state,
    menu_detect_start,      \* a time, or NoTime for None
    gameover_detect_start,
    score,
    highscore,
    highscore_file,         \* the highscore in highscore.json (0 without the file)
    foods,                  \* sequence of food records
    bonus_food_spawn_timer,
    paused,
    muted,
    exit_confirmation,
    running,
    \* Food.respawn
    attempts                \* local attempts of the call in progress

VARIABLES
    \* history variables: what happened, for stating the properties
    pub_seq,                \* publishes started by camera_loop
    shared_pos_pub,         \* the publish that wrote shared_finger_pos
    shared_det_pub,         \* the publish that wrote shared_finger_detected
    loc_pos_pub,            \* the publish whose position the last read copied
    loc_det_pub,            \* the publish whose flag the last read copied
    dec_pos_pub,            \* the publish whose position the last start test used
    dec_det_pub,            \* the publish whose flag the last start test used
    keys_used,              \* key and quit events handled so far
    last_call,              \* the operation that ran last
    last_branch,            \* the branch the last Snake.update took
    moves,                  \* Snake.update calls that inserted a head
    cur_target,             \* the target of the last Snake.update call
    events,                 \* calls other than a repeated Snake.update
    self_hit,               \* last result of check_self_collision
    wall_hit,               \* last result of check_wall_collision
    grown_since_move        \* growth requested since the head last moved

trackVars == <<prev_position, position_history, smooth_pos>>

camVars == <<pc_cam, tracker_new_pos, cam_game_pos, cam_detected>>

slotVars == <<frame_lock, shared_finger_pos, shared_finger_detected,
              latest_overlay_detected, latest_frame_small>>

simVars == <<pc_sim, loc_finger_pos, loc_finger_detected, finger_detected,
             last_finger_pos, game_state, menu_detect_start,
             gameover_detect_start, score, highscore, highscore_file, foods,
             bonus_food_spawn_timer, paused, muted, exit_confirmation, running>>

pubVars == <<pub_seq, shared_pos_pub, shared_det_pub, loc_pos_pub, loc_det_pub,
            dec_pos_pub, dec_det_pub, keys_used>>

callVars == <<last_call, last_branch, moves, cur_target, events,
              self_hit, wall_hit, grown_since_move>>

vars == <<snakeVars, now, trackVars, camVars, slotVars, simVars, pubVars,
          callVars, attempts, ret>>

\* FingerSnakeGame.__init__ (with Snake.__init__ and RegularFood.__init__),
\* but for the chain
InitFields ==
    /\ velocity = <<0, 0>>
    /\ growth_pending = 0
    /\ speed_boost_end_time = 0
    /\ now = 0
    /\ prev_position = NoPos
    /\ position_history = <<>>
    /\ smooth_pos = NoPos
    /\ pc_cam = "check"
    /\ tracker_new_pos = NoPos
    /\ cam_game_pos = NoPos
    /\ cam_detected = FALSE
    /\ frame_lock = "free"
    /\ shared_finger_pos = NoPos
    /\ shared_finger_detected = FALSE
    /\ latest_overlay_detected = FALSE
    /\ latest_frame_small = 0
    /\ pc_sim = "events"
    /\ loc_finger_pos = NoPos
    /\ loc_finger_detected = FALSE
    /\ finger_detected = FALSE
    /\ last_finger_pos = NoPos
    /\ game_state = "MENU"
    /\ menu_detect_start = NoTime
    /\ gameover_detect_start = NoTime
    /\ score = 0
    /\ highscore = 0
    /\ highscore_file = 0
    /\ \E pos \in SpawnPoints : foods = <<NewFood(FALSE, pos)>>
    /\ bonus_food_spawn_timer = BONUS_FIRST_DELAY
    /\ paused = FALSE
    /\ muted = FALSE
    /\ exit_confirmation = FALSE
    /\ running = TRUE
    /\ pub_seq = 0
    /\ shared_pos_pub = 0
    /\ shared_det_pub = 0
    /\ loc_pos_pub = 0
    /\ loc_det_pub = 0
    /\ dec_pos_pub = 0
    /\ dec_det_pub = 0
    /\ keys_used = 0
    /\ last_call = "init"
    /\ last_branch = "none"
    /\ moves = 0
    /\ cur_target = NoPos
    /\ events = 0
    /\ self_hit = FALSE
    /\ wall_hit = FALSE
    /\ grown_since_move = 0
    /\ attempts = 0
    /\ ret = TRUE

\* FingerSnakeGame.__init__: the chain is the one Snake.reset lays out
Init == InitFields /\ segments = reset_segments

\* ------------------------------------------- the Snake object, call by call
\* the targets a caller passes to Snake.update: None, a point in the dead
\* zone of the reset head, and points far ahead, far behind and near it
HarnessTargets ==
    {NoPos, <<401, 301>>, <<786, 300>>, <<14, 300>>, <<430, 340>>}

\* a call other than a repeated Snake.update(target) uses up one event
EventAllowed == events < MaxEvents

\* Snake.reset
SnakeReset ==
    /\ EventAllowed
    /\ last_call # "reset"
    /\ segments' = reset_segments
    /\ growth_pending' = 0
    /\ velocity' = <<0, 0>>
    /\ speed_boost_end_time' = 0
    /\ last_call' = "reset"
    /\ grown_since_move' = 0
    /\ events' = events + 1
    /\ UNCHANGED <<ret, attempts, now, trackVars, camVars, slotVars, simVars, pubVars,
                   last_branch, moves, cur_target, self_hit,
                   wall_hit>>

\* Snake.update(target_pos)
SnakeUpdateUpTo(target_pos, max_updates) ==
    LET changed == last_call # "init" /\ cur_target # target_pos
        r == snake_update(segments, velocity, growth_pending,
                          get_max_speed(now, speed_boost_end_time), target_pos)
    IN  /\ moves < max_updates
        /\ changed => EventAllowed
        /\ segments' = r.segments
        /\ velocity' = r.velocity
        /\ last_call' = "update"
        /\ last_branch' = r.branch
        /\ moves' = IF r.branch = "moved" THEN moves + 1 ELSE moves
        /\ grown_since_move' = IF r.branch = "moved" THEN 0 ELSE grown_since_move
        /\ cur_target' = target_pos
        /\ events' = IF changed THEN events + 1 ELSE events
        /\ UNCHANGED <<ret, attempts, growth_pending, speed_boost_end_time, now, trackVars,
                       camVars, slotVars, simVars, pubVars, self_hit,
                       wall_hit>>

SnakeUpdate(target_pos) == SnakeUpdateUpTo(target_pos, MaxUpdates)

\* Snake.grow(amount)
SnakeGrow(amount) ==
    /\ EventAllowed
    /\ growth_pending' = growth_pending + amount
    /\ last_call' = "grow"
    /\ grown_since_move' = grown_since_move + amount
    /\ events' = events + 1
    /\ UNCHANGED <<ret, attempts, segments, velocity, speed_boost_end_time, now, trackVars,
                   camVars, slotVars, simVars, pubVars, last_branch, moves,
                   cur_target, self_hit, wall_hit>>

\* an activation that adds the duration to a boost still running
SnakeActivateBoostExtends(duration) ==
    /\ EventAllowed
    /\ speed_boost_end_time' = Max(now, speed_boost_end_time) + duration
    /\ last_call' = "boost"
    /\ events' = events + 1
    /\ UNCHANGED <<ret, attempts, segments, velocity, growth_pending, now,
                   trackVars, camVars, slotVars, simVars, pubVars, last_branch,
                   moves, cur_target, self_hit, wall_hit, grown_since_move>>

\* Snake.activate_boost(duration)
SnakeActivateBoost(duration) ==
    /\ EventAllowed
    /\ speed_boost_end_time' = now + duration
    /\ last_call' = "boost"
    /\ events' = events + 1
    /\ UNCHANGED <<ret, attempts, segments, velocity, growth_pending, now, trackVars, camVars,
                   slotVars, simVars, pubVars, last_branch, moves, cur_target,
                   self_hit, wall_hit, grown_since_move>>

\* time passes between two calls
SnakeClockTick(dt) ==
    /\ EventAllowed
    /\ now' = now + dt
    /\ events' = events + 1
    /\ UNCHANGED <<ret, attempts, snakeVars, trackVars, camVars, slotVars, simVars, pubVars,
                   last_call, last_branch, moves, cur_target, self_hit,
                   wall_hit,
                   grown_since_move>>

NextSnake ==
    \/ SnakeReset
    \/ \E target_pos \in HarnessTargets : SnakeUpdate(target_pos)
    \/ \E food_points \in {REGULAR_SCORE, BONUS_SCORE} :
           SnakeGrow(food_points * GROWTH_RATE)
    \/ SnakeActivateBoost(BONUS_BOOST_DURATION)
    \/ \E dt \in {1, BONUS_BOOST_DURATION} : SnakeClockTick(dt)

\* Snake.__init__, with the rest of the game as constructed and never run
InitSnake == Init /\ foods = <<NewFood(FALSE, <<440, 300>>)>>

\* every sequence of calls on one Snake object
SpecSnake == InitSnake /\ [][NextSnake]_vars

\* --------------------------------- Snake.check_self_collision, chain by chain
\* the headings of the links of a chain, in units of SEGMENT_SPACING
ChainSteps == {<<1, 0>>, <<0 - 1, 0>>, <<0, 1>>, <<0, 0 - 1>>}

\* the k-th coordinate of the sum of the first n headings
RECURSIVE StepSum(_, _, _)
StepSum(dirs, n, k) ==
    IF n = 0 THEN 0 ELSE dirs[n][k] + StepSum(dirs, n - 1, k)

\* self.segments with the head in the centre and one link per heading
ChainThrough(dirs) ==
    [i \in 1..(Len(dirs) + 1) |->
        <<(GAME_WIDTH \div 2) * Scale
              + SEGMENT_SPACING * Scale * StepSum(dirs, i - 1, 1),
          (GAME_HEIGHT \div 2) * Scale
              + SEGMENT_SPACING * Scale * StepSum(dirs, i - 1, 2)>>]

\* a Snake whose chain is any chain of up to MaxChainLinks links
InitChains ==
    /\ InitFields
    /\ foods = <<NewFood(FALSE, <<440, 300>>)>>
    /\ \E n \in 0..MaxChainLinks :
           \E dirs \in [1..n -> ChainSteps] : segments = ChainThrough(dirs)

\* Snake.check_self_collision()
SnakeCheckSelfCollision ==
    /\ last_call # "check"
    /\ self_hit' = check_self_collision(segments)
    /\ last_call' = "check"
    /\ UNCHANGED <<ret, attempts, snakeVars, now, trackVars, camVars, slotVars, simVars,
                   pubVars, last_branch, moves, cur_target, events,
                   wall_hit, grown_since_move>>

NextChains == SnakeCheckSelfCollision

\* one call of check_self_collision on every such chain
SpecChains == InitChains /\ [][NextChains]_vars

\* --------------------------------- Snake.check_wall_collision, head by head
\* the coordinates a head is given along an axis of the given length: on each
\* edge, at the margin from it, one unit to either side of the margin, beyond
\* the edge, and in the middle
WallCoords(length) ==
    {0 - Scale, 0,
     WALL_COLLISION_MARGIN * Scale - 1, WALL_COLLISION_MARGIN * Scale,
     WALL_COLLISION_MARGIN * Scale + 1,
     (length \div 2) * Scale,
     (length - WALL_COLLISION_MARGIN) * Scale - 1,
     (length - WALL_COLLISION_MARGIN) * Scale,
     (length - WALL_COLLISION_MARGIN) * Scale + 1,
     length * Scale, length * Scale + Scale}

\* a Snake whose chain lies behind a head at any of these points
InitWalls ==
    /\ InitFields
    /\ foods = <<NewFood(FALSE, <<440, 300>>)>>
    /\ \E x \in WallCoords(GAME_WIDTH), y \in WallCoords(GAME_HEIGHT) :
           segments = [i \in 1..INITIAL_LENGTH |->
                          <<x - (i - 1) * SEGMENT_SPACING * Scale, y>>]

\* Snake.check_wall_collision()
SnakeCheckWallCollision ==
    /\ last_call # "wallcheck"
    /\ wall_hit' = check_wall_collision(segments)
    /\ last_call' = "wallcheck"
    /\ UNCHANGED <<ret, attempts, snakeVars, now, trackVars, camVars, slotVars, simVars,
                   pubVars, last_branch, moves, cur_target, events, self_hit,
                   grown_since_move>>

NextWalls == SnakeCheckWallCollision

\* one call of check_wall_collision on every such head
SpecWalls == InitWalls /\ [][NextWalls]_vars

\* ------------------------------------------------ camera_loop (utils.py)
\* what the detector reports for a frame: no hand (NoPos) or the finger tip
\* in camera pixels
RawSamples == {NoPos, <<320, 240>>, <<600, 240>>}

\* a tracking part that tests finger_pos alone (if finger_pos:), so that the
\* point the tracker re-emits with detected = False is smoothed again
TrackLostFed(prev, history, smooth, raw) ==
    LET f == find_finger_position(prev, raw)
    IN  IF f.pos # NoPos
        THEN LET sp == smooth_position(history, smooth, map_coordinates(f.pos))
             IN  [game_pos |-> sp.pos, detected |-> f.detected,
                  prev_position |-> f.prev_position,
                  position_history |-> sp.position_history,
                  smooth_pos |-> sp.smooth_pos]
        ELSE [game_pos |-> NoPos, detected |-> f.detected,
              prev_position |-> f.prev_position,
              position_history |-> history, smooth_pos |-> smooth]

\* the tracking part of one iteration: find_finger_position, map_coordinates
\* and smooth_position, giving the pair to publish and the new tracker state
Track(prev, history, smooth, raw) ==
    LET f == find_finger_position(prev, raw)
    IN  IF f.detected /\ f.pos # NoPos
        THEN LET sp == smooth_position(history, smooth, map_coordinates(f.pos))
             IN  [game_pos |-> sp.pos, detected |-> f.detected,
                  prev_position |-> f.prev_position,
                  position_history |-> sp.position_history,
                  smooth_pos |-> sp.smooth_pos]
        ELSE [game_pos |-> NoPos, detected |-> f.detected,
              prev_position |-> f.prev_position,
              position_history |-> history, smooth_pos |-> smooth]

\* a loop that does not look at self.running (while self.cap is not None)
CamCheckIgnoresFlag ==
    /\ pc_cam = "check"
    /\ pc_cam' = "capture"
    /\ UNCHANGED <<ret, attempts, snakeVars, now, trackVars, tracker_new_pos, cam_game_pos,
                   cam_detected,
                   slotVars, simVars, pubVars, callVars>>

\* while self.running and self.cap is not None
CamCheck ==
    /\ pc_cam = "check"
    /\ pc_cam' = IF running THEN "capture" ELSE "done"
    /\ UNCHANGED <<ret, attempts, snakeVars, now, trackVars, tracker_new_pos, cam_game_pos,
                   cam_detected,
                   slotVars, simVars, pubVars, callVars>>

\* a failed read that is published as a lost finger
CamSkipPublishesLost ==
    /\ pc_cam = "capture"
    /\ pc_cam' = "check"
    /\ ret' = FALSE
    /\ shared_finger_pos' = NoPos
    /\ shared_finger_detected' = FALSE
    /\ UNCHANGED <<attempts, snakeVars, now, trackVars, tracker_new_pos,
                   cam_game_pos, cam_detected, frame_lock,
                   latest_overlay_detected, latest_frame_small, simVars,
                   pubVars, callVars>>

\* cap.read() fails: sleep and continue
CamSkip ==
    /\ pc_cam = "capture"
    /\ pc_cam' = "check"
    /\ ret' = FALSE
    /\ UNCHANGED <<attempts, snakeVars, now, trackVars, tracker_new_pos, cam_game_pos,
                   cam_detected,
                   slotVars, simVars, pubVars, callVars>>

\* cap.read() gives a frame: detection, mapping and smoothing
CamTrack(raw, max_publish) ==
    LET t == Track(prev_position, position_history, smooth_pos, raw)
    IN  /\ pc_cam = "capture"
        /\ pub_seq < max_publish
        /\ prev_position' = t.prev_position
        /\ position_history' = t.position_history
        /\ smooth_pos' = t.smooth_pos
        /\ tracker_new_pos' = raw
        /\ cam_game_pos' = t.game_pos
        /\ cam_detected' = t.detected
        /\ pc_cam' = "lock"
        /\ ret' = TRUE
        /\ UNCHANGED <<attempts, snakeVars, now, slotVars, simVars, pubVars, callVars>>

\* threading.Lock without the mutual exclusion: an acquire that never waits
LockIgnored(lock) == TRUE

\* with self.frame_lock: the acquire goes through when no thread holds the lock
LockAvailable(lock) == lock = "free"

\* a with block that keeps the lock past its end
ReleaseSkipped(lock) == lock

\* the end of a with self.frame_lock block: the lock is released
Release(lock) == "free"

\* with self.frame_lock: (the publish)
CamAcquire ==
    /\ pc_cam = "lock"
    /\ LockAvailable(frame_lock)
    /\ frame_lock' = "cam"
    /\ pub_seq' = pub_seq + 1
    /\ pc_cam' = "w_pos"
    /\ UNCHANGED <<ret, attempts, snakeVars, now, trackVars, tracker_new_pos, cam_game_pos,
                   cam_detected,
                   shared_finger_pos, shared_finger_detected,
                   latest_overlay_detected, latest_frame_small, simVars,
                   shared_pos_pub, shared_det_pub, loc_pos_pub, loc_det_pub,
                   dec_pos_pub, dec_det_pub, keys_used, callVars>>

\* self.shared_finger_pos = game_pos
CamWritePos ==
    /\ pc_cam = "w_pos"
    /\ shared_finger_pos' = cam_game_pos
    /\ shared_pos_pub' = pub_seq
    /\ pc_cam' = "w_det"
    /\ UNCHANGED <<ret, attempts, snakeVars, now, trackVars, tracker_new_pos, cam_game_pos,
                   cam_detected,
                   frame_lock, shared_finger_detected, latest_overlay_detected,
                   latest_frame_small, simVars, pub_seq, shared_det_pub,
                   loc_pos_pub, loc_det_pub, dec_pos_pub, dec_det_pub,
                   keys_used, callVars>>

\* self.shared_finger_detected = detected, the overlay fields, and the
\* release at the end of the with block
CamWriteDet ==
    /\ pc_cam = "w_det"
    /\ shared_finger_detected' = cam_detected
    /\ latest_overlay_detected' = cam_detected
    /\ shared_det_pub' = pub_seq
    /\ frame_lock' = Release(frame_lock)
    /\ pc_cam' = "lock2"
    /\ UNCHANGED <<ret, attempts, snakeVars, now, trackVars, tracker_new_pos, cam_game_pos,
                   cam_detected,
                   shared_finger_pos, latest_frame_small, simVars, pub_seq,
                   shared_pos_pub, loc_pos_pub, loc_det_pub, dec_pos_pub,
                   dec_det_pub, keys_used, callVars>>

\* with self.frame_lock: (the preview frame)
CamAcquireFrame ==
    /\ pc_cam = "lock2"
    /\ LockAvailable(frame_lock)
    /\ frame_lock' = "cam"
    /\ pc_cam' = "w_frame"
    /\ UNCHANGED <<ret, attempts, snakeVars, now, trackVars, tracker_new_pos, cam_game_pos,
                   cam_detected,
                   shared_finger_pos, shared_finger_detected,
                   latest_overlay_detected, latest_frame_small, simVars,
                   pubVars, callVars>>

\* self.latest_frame_small = frame_small, the release, and time.sleep
CamWriteFrame ==
    /\ pc_cam = "w_frame"
    /\ latest_frame_small' = pub_seq
    /\ frame_lock' = Release(frame_lock)
    /\ pc_cam' = "check"
    /\ UNCHANGED <<ret, attempts, snakeVars, now, trackVars, tracker_new_pos, cam_game_pos,
                   cam_detected,
                   shared_finger_pos, shared_finger_detected,
                   latest_overlay_detected, simVars, pubVars, callVars>>

\* one whole iteration of camera_loop on a frame, taken as one step: both
\* critical sections run to their end without the main thread in between
CamIteration(raw, max_publish) ==
    LET t == Track(prev_position, position_history, smooth_pos, raw)
    IN  /\ pc_cam = "capture"
        /\ pub_seq < max_publish
        /\ LockAvailable(frame_lock)
        /\ prev_position' = t.prev_position
        /\ position_history' = t.position_history
        /\ smooth_pos' = t.smooth_pos
        /\ tracker_new_pos' = raw
        /\ cam_game_pos' = t.game_pos
        /\ cam_detected' = t.detected
        /\ shared_finger_pos' = t.game_pos
        /\ shared_finger_detected' = t.detected
        /\ latest_overlay_detected' = t.detected
        /\ latest_frame_small' = pub_seq + 1
        /\ pub_seq' = pub_seq + 1
        /\ shared_pos_pub' = pub_seq + 1
        /\ shared_det_pub' = pub_seq + 1
        /\ pc_cam' = "check"
        /\ ret' = TRUE
        /\ UNCHANGED <<attempts, snakeVars, now, frame_lock, simVars, loc_pos_pub,
                       loc_det_pub, dec_pos_pub, dec_det_pub, keys_used,
                       callVars>>

\* ---------------------------------------------- run: the main loop (utils.py)
\* what the event queue holds in one tick: nothing, the window's QUIT, or one
\* KEYDOWN (q is handled as esc, space as p)
Keys == {"none", "quit", "y", "n", "esc", "p", "m"}

\* an event loop that handles the toggles before it looks at the modal
HandleEventTogglesFirst(key, is_running, confirming, is_paused, is_muted) ==
    LET same == [running |-> is_running, exit_confirmation |-> confirming,
                 paused |-> is_paused, muted |-> is_muted]
    IN  IF key = "none" THEN same
        ELSE IF key = "quit" THEN [same EXCEPT !.running = FALSE]
        ELSE IF key = "p" THEN [same EXCEPT !.paused = ~is_paused]
        ELSE IF key = "m" THEN [same EXCEPT !.muted = ~is_muted]
        ELSE IF confirming
        THEN IF key = "y" THEN [same EXCEPT !.running = FALSE]
             ELSE IF key \in {"n", "esc"}
             THEN [same EXCEPT !.exit_confirmation = FALSE]
             ELSE same
        ELSE IF key = "esc" THEN [same EXCEPT !.exit_confirmation = TRUE]
        ELSE same

\* the event loop at the top of run, for one event
HandleEvent(key, is_running, confirming, is_paused, is_muted) ==
    LET same == [running |-> is_running, exit_confirmation |-> confirming,
                 paused |-> is_paused, muted |-> is_muted]
    IN  IF key = "none" THEN same
        ELSE IF key = "quit" THEN [same EXCEPT !.running = FALSE]
        ELSE IF confirming
        THEN IF key = "y" THEN [same EXCEPT !.running = FALSE]
             ELSE IF key \in {"n", "esc"}
             THEN [same EXCEPT !.exit_confirmation = FALSE]
             ELSE same
        ELSE IF key = "esc" THEN [same EXCEPT !.exit_confirmation = TRUE]
        ELSE IF key = "p" THEN [same EXCEPT !.paused = ~is_paused]
        ELSE IF key = "m" THEN [same EXCEPT !.muted = ~is_muted]
        ELSE same

\* for event in pygame.event.get()
SimEvents(key, max_keys) ==
    LET e == HandleEvent(key, running, exit_confirmation, paused, muted)
    IN  /\ pc_sim = "events"
        /\ key # "none" => keys_used < max_keys
        /\ running' = e.running
        /\ exit_confirmation' = e.exit_confirmation
        /\ paused' = e.paused
        /\ muted' = e.muted
        /\ keys_used' = IF key = "none" THEN keys_used ELSE keys_used + 1
        /\ pc_sim' = "lock"
        /\ UNCHANGED <<ret, attempts, snakeVars, now, trackVars, camVars, slotVars,
                       loc_finger_pos, loc_finger_detected, finger_detected,
                       last_finger_pos, game_state, menu_detect_start,
                       gameover_detect_start, score, highscore, highscore_file, foods,
                       bonus_food_spawn_timer, pub_seq, shared_pos_pub,
                       shared_det_pub, loc_pos_pub, loc_det_pub, dec_pos_pub,
                       dec_det_pub, callVars>>

\* update_from_shared_state: with self.frame_lock
SimAcquire ==
    /\ pc_sim = "lock"
    /\ LockAvailable(frame_lock)
    /\ frame_lock' = "sim"
    /\ pc_sim' = "r_pos"
    /\ UNCHANGED <<ret, attempts, snakeVars, now, trackVars, camVars, shared_finger_pos,
                   shared_finger_detected, latest_overlay_detected,
                   latest_frame_small, loc_finger_pos, loc_finger_detected,
                   finger_detected, last_finger_pos, game_state,
                   menu_detect_start, gameover_detect_start, score, highscore, highscore_file,
                   foods, bonus_food_spawn_timer, paused, muted,
                   exit_confirmation, running, pubVars, callVars>>

\* the copy of the preview frame, and finger_pos = self.shared_finger_pos
SimReadPos ==
    /\ pc_sim = "r_pos"
    /\ loc_finger_pos' = shared_finger_pos
    /\ loc_pos_pub' = shared_pos_pub
    /\ pc_sim' = "r_det"
    /\ UNCHANGED <<ret, attempts, snakeVars, now, trackVars, camVars, slotVars,
                   loc_finger_detected, finger_detected, last_finger_pos,
                   game_state, menu_detect_start, gameover_detect_start, score,
                   highscore, highscore_file, foods, bonus_food_spawn_timer, paused, muted,
                   exit_confirmation, running, pub_seq, shared_pos_pub,
                   shared_det_pub, loc_det_pub, dec_pos_pub, dec_det_pub,
                   keys_used, callVars>>

\* an assignment without the test of finger_pos
KeepLastAssigned(last, finger_pos) == finger_pos

\* the value update_from_shared_state leaves in last_finger_pos
KeepLast(last, finger_pos) == IF finger_pos # NoPos THEN finger_pos ELSE last

\* finger_detected = self.shared_finger_detected, the overlay fields, the
\* release, and the assignments after the with block
SimReadDet ==
    /\ pc_sim = "r_det"
    /\ loc_finger_detected' = shared_finger_detected
    /\ loc_det_pub' = shared_det_pub
    /\ frame_lock' = Release(frame_lock)
    /\ finger_detected' = shared_finger_detected
    /\ last_finger_pos' = KeepLast(last_finger_pos, loc_finger_pos)
    /\ pc_sim' = "logic"
    /\ UNCHANGED <<ret, attempts, snakeVars, now, trackVars, camVars, shared_finger_pos,
                   shared_finger_detected, latest_overlay_detected,
                   latest_frame_small, loc_finger_pos, game_state,
                   menu_detect_start, gameover_detect_start, score, highscore, highscore_file,
                   foods, bonus_food_spawn_timer, paused, muted,
                   exit_confirmation, running, pub_seq, shared_pos_pub,
                   shared_det_pub, loc_pos_pub, dec_pos_pub, dec_det_pub,
                   keys_used, callVars>>

\* update_from_shared_state taken as one step: its critical section runs to
\* its end without the camera thread in between
SimSnapshot ==
    /\ pc_sim = "lock"
    /\ LockAvailable(frame_lock)
    /\ loc_finger_pos' = shared_finger_pos
    /\ loc_finger_detected' = shared_finger_detected
    /\ loc_pos_pub' = shared_pos_pub
    /\ loc_det_pub' = shared_det_pub
    /\ finger_detected' = shared_finger_detected
    /\ last_finger_pos' = KeepLast(last_finger_pos, shared_finger_pos)
    /\ pc_sim' = "logic"
    /\ UNCHANGED <<ret, attempts, snakeVars, now, trackVars, camVars, slotVars, game_state,
                   menu_detect_start, gameover_detect_start, score, highscore, highscore_file,
                   foods, bonus_food_spawn_timer, paused, muted,
                   exit_confirmation, running, pub_seq, shared_pos_pub,
                   shared_det_pub, dec_pos_pub, dec_det_pub, keys_used,
                   callVars>>

\* half a second passes
ClockTick(max_time) ==
    /\ now < max_time
    /\ now' = now + 1
    /\ UNCHANGED <<ret, attempts, snakeVars, trackVars, camVars, slotVars, simVars, pubVars,
                   callVars>>

\* a game that goes back to the menu when a finished session is left
StateAfterViaMenu(state, event) ==
    IF state = "MENU" /\ event = "start" THEN "PLAYING"
    ELSE IF state = "PLAYING" /\ event = "collision" THEN "GAME_OVER"
    ELSE IF state = "GAME_OVER" /\ event = "start" THEN "MENU"
    ELSE state

\* the assignments to self.game_state in run: the dwell of the MENU branch
\* and of the GAME_OVER branch starts a session, the collision test of the
\* PLAYING branch ends it
StateAfter(state, event) ==
    IF state = "MENU" /\ event = "start" THEN "PLAYING"
    ELSE IF state = "PLAYING" /\ event = "collision" THEN "GAME_OVER"
    ELSE IF state = "GAME_OVER" /\ event = "start" THEN "PLAYING"
    ELSE state

\* the start test of the MENU and GAME_OVER branches:
\* self.finger_detected and self.shared_finger_pos is not None
StartTest(detected, slot_pos) == detected /\ slot_pos # NoPos

\* a test that follows the last known position whether or not the finger
\* is detected
AdvanceOnLastPos(detected, last_pos) == last_pos # NoPos

\* the test before self.snake.update in the PLAYING branch:
\* self.finger_detected and self.last_finger_pos
ShouldAdvance(detected, last_pos) == detected /\ last_pos # NoPos

\* a timer re-armed with the delay of the first bonus food (15 s)
BonusIntervalsAsFirstDelay == {BONUS_FIRST_DELAY}

\* random.uniform(20.0, 30.0), in half seconds: the ends and the middle
BonusIntervals ==
    {BONUS_MIN_INTERVAL, (BONUS_MIN_INTERVAL + BONUS_MAX_INTERVAL) \div 2,
     BONUS_MAX_INTERVAL}

\* score gained by the food-collision loop
RECURSIVE ScoreGained(_, _)
ScoreGained(fs, head) ==
    IF fs = <<>> THEN 0
    ELSE (IF food_check_collision(fs[1], head) THEN food_score(fs[1]) ELSE 0)
         + ScoreGained(Tail(fs), head)

\* a loop that respawns every eaten item, the bonus food as well
FoodsAfterEatingRespawnAll(fs, head, respawn_pos, t) ==
    [i \in 1..Len(fs) |->
        IF food_check_collision(fs[i], head)
        THEN food_respawn(fs[i], respawn_pos, t) ELSE fs[i]]

\* a loop that removes every eaten item, the regular food as well
FoodsAfterEatingRemoveAll(fs, head, respawn_pos, t) ==
    SelectSeq(fs, LAMBDA food : ~food_check_collision(food, head))

\* the item list after the food-collision loop: an eaten bonus food is
\* removed, an eaten regular food respawns (at respawn_pos)
RECURSIVE FoodsAfterEating(_, _, _, _)
FoodsAfterEating(fs, head, respawn_pos, t) ==
    IF fs = <<>> THEN <<>>
    ELSE LET rest == FoodsAfterEating(Tail(fs), head, respawn_pos, t)
         IN  IF ~food_check_collision(fs[1], head) THEN <<fs[1]>> \o rest
             ELSE IF fs[1].is_bonus THEN rest
             ELSE <<food_respawn(fs[1], respawn_pos, t)>> \o rest

\* a growth of one point for each point of score
GrowthGainedUnscaled(gained) == gained

\* what the food-collision loop passes to Snake.grow for the score it adds:
\* self.snake.grow(food.score * GROWTH_RATE) beside self.score += food.score
GrowthGained(gained) == gained * GROWTH_RATE

\* a collision test that runs before the food-collision loop: the score it
\* compares lacks what the tick gained
FinalScoreBeforeEating(score_before, gained) == score_before

\* self.score when the game-over test runs: the food-collision loop above it
\* has added what the tick gained
FinalScore(score_before, gained) == score_before + gained

\* a game over that records the score of the session, beaten or not
NewHighscoreAlways(high, final_score) == final_score

\* the highscore after a game over with the given score
NewHighscore(high, final_score) ==
    IF final_score > high THEN final_score ELSE high

\* the exit-confirmation branch of run: draw and continue
TickModal ==
    /\ exit_confirmation
    /\ last_call' = "modal"
    /\ UNCHANGED <<snakeVars, game_state, menu_detect_start,
                   gameover_detect_start, score, highscore, highscore_file, foods,
                   bonus_food_spawn_timer, dec_pos_pub, dec_det_pub,
                   last_branch, moves, grown_since_move>>

\* the MENU branch of run
TickMenu ==
    /\ ~exit_confirmation
    /\ game_state = "MENU"
    /\ last_call' = "menu"
    /\ dec_pos_pub' = shared_pos_pub
    /\ dec_det_pub' = loc_det_pub
    /\ UNCHANGED <<gameover_detect_start, highscore, highscore_file, bonus_food_spawn_timer,
                   last_branch, moves>>
    /\ IF StartTest(finger_detected, shared_finger_pos)
       THEN IF menu_detect_start = NoTime
            THEN /\ menu_detect_start' = now
                 /\ UNCHANGED <<snakeVars, game_state, score, foods,
                                grown_since_move>>
            ELSE IF now - menu_detect_start >= TRANSITION_DELAY
            THEN /\ game_state' = StateAfter(game_state, "start")
                 /\ segments' = reset_segments
                 /\ growth_pending' = 0
                 /\ velocity' = <<0, 0>>
                 /\ speed_boost_end_time' = 0
                 /\ grown_since_move' = 0
                 /\ score' = 0
                 /\ \E ps \in [1..Len(foods) -> SpawnPoints] :
                        /\ \A i \in 1..Len(foods) :
                               ps[i] \in RespawnPositions(food_size(foods[i]),
                                                          reset_segments)
                        /\ foods' = [i \in 1..Len(foods) |->
                                        food_respawn(foods[i], ps[i], now)]
                 /\ menu_detect_start' = NoTime
            ELSE UNCHANGED <<snakeVars, game_state, score, foods,
                             menu_detect_start, grown_since_move>>
       ELSE /\ menu_detect_start' = NoTime
            /\ UNCHANGED <<snakeVars, game_state, score, foods,
                           grown_since_move>>

\* the paused PLAYING branch of run: draw and continue
TickPaused ==
    /\ ~exit_confirmation
    /\ game_state = "PLAYING"
    /\ paused
    /\ last_call' = "paused"
    /\ UNCHANGED <<snakeVars, game_state, menu_detect_start,
                   gameover_detect_start, score, highscore, highscore_file, foods,
                   bonus_food_spawn_timer, dec_pos_pub, dec_det_pub,
                   last_branch, moves, grown_since_move>>

\* a test that looks at the walls only
CollisionTestWallOnly(segs) == check_wall_collision(segs)

\* the test that ends a session: self.snake.check_self_collision() or
\* self.snake.check_wall_collision()
CollisionTest(segs) == check_self_collision(segs) \/ check_wall_collision(segs)

\* the PLAYING branch of run; the tick is left out once the moving ticks or
\* the score reached their bounds
TickPlaying(max_moves) ==
    LET spawn == Len(foods) < 2 /\ now >= bonus_food_spawn_timer
        advance == ShouldAdvance(finger_detected, last_finger_pos)
        r == IF advance
             THEN snake_update(segments, velocity, growth_pending,
                               get_max_speed(now, speed_boost_end_time),
                               last_finger_pos)
             ELSE [segments |-> segments, velocity |-> velocity,
                   branch |-> "skipped"]
        head == r.segments[1]
    IN  /\ ~exit_confirmation
        /\ game_state = "PLAYING"
        /\ ~paused
        /\ r.branch = "moved" => moves < max_moves
        /\ last_call' = "playing"
        /\ \E bonus_pos \in (IF spawn
                             THEN RespawnPositions(BONUS_FOOD_SIZE, segments)
                             ELSE {NoPos}),
              interval \in (IF spawn THEN BonusIntervals ELSE {0}) :
            LET spawned == IF spawn
                           THEN Append(foods,
                                    food_respawn(NewFood(TRUE, bonus_pos),
                                                 bonus_pos, now))
                           ELSE foods
                updated == [i \in 1..Len(spawned) |->
                               food_update(spawned[i], now)]
                gained == ScoreGained(updated, head)
                ate_regular == \E i \in 1..Len(updated) :
                                   /\ ~updated[i].is_bonus
                                   /\ food_check_collision(updated[i], head)
                ate_bonus == \E i \in 1..Len(updated) :
                                 /\ updated[i].is_bonus
                                 /\ food_check_collision(updated[i], head)
                over == CollisionTest(r.segments)
            IN  /\ gained > 0 => score < MaxScore
                /\ bonus_food_spawn_timer' =
                       IF spawn THEN now + interval ELSE bonus_food_spawn_timer
                /\ segments' = r.segments
                /\ velocity' = r.velocity
                /\ last_branch' = r.branch
                /\ moves' = IF r.branch = "moved" THEN moves + 1 ELSE moves
                /\ score' = score + gained
                /\ growth_pending' = growth_pending + GrowthGained(gained)
                /\ grown_since_move' =
                       (IF r.branch = "moved" THEN 0 ELSE grown_since_move)
                       + GrowthGained(gained)
                /\ speed_boost_end_time' =
                       IF ate_bonus THEN now + BONUS_BOOST_DURATION
                       ELSE speed_boost_end_time
                /\ \E respawn_pos \in
                          (IF ate_regular
                           THEN RespawnPositions(FOOD_SIZE, r.segments)
                           ELSE {NoPos}) :
                       foods' = FoodsAfterEating(updated, head, respawn_pos, now)
                /\ game_state' = IF over THEN StateAfter(game_state, "collision")
                                  ELSE game_state
                /\ gameover_detect_start' =
                       IF over THEN NoTime ELSE gameover_detect_start
                /\ highscore' =
                       IF over
                       THEN NewHighscore(highscore, FinalScore(score, gained))
                       ELSE highscore
                /\ highscore_file' \in
                       IF over /\ FinalScore(score, gained) > highscore
                       THEN {NewHighscore(highscore, FinalScore(score, gained)),
                             highscore_file}
                       ELSE {highscore_file}
        /\ UNCHANGED <<menu_detect_start, dec_pos_pub, dec_det_pub>>

\* the GAME_OVER branch of run
TickGameOver ==
    /\ ~exit_confirmation
    /\ game_state = "GAME_OVER"
    /\ last_call' = "gameover"
    /\ dec_pos_pub' = shared_pos_pub
    /\ dec_det_pub' = loc_det_pub
    /\ UNCHANGED <<menu_detect_start, highscore, highscore_file, last_branch, moves>>
    /\ IF StartTest(finger_detected, shared_finger_pos)
       THEN IF gameover_detect_start = NoTime
            THEN /\ gameover_detect_start' = now
                 /\ UNCHANGED <<snakeVars, game_state, score, foods,
                                bonus_food_spawn_timer, grown_since_move>>
            ELSE IF now - gameover_detect_start >= TRANSITION_DELAY
            THEN /\ game_state' = StateAfter(game_state, "start")
                 /\ segments' = reset_segments
                 /\ growth_pending' = 0
                 /\ velocity' = <<0, 0>>
                 /\ speed_boost_end_time' = 0
                 /\ grown_since_move' = 0
                 /\ score' = 0
                 /\ \E pos \in RespawnPositions(FOOD_SIZE, reset_segments) :
                        foods' = <<food_respawn(NewFood(FALSE, pos), pos, now)>>
                 /\ bonus_food_spawn_timer' = now + BONUS_FIRST_DELAY
                 /\ gameover_detect_start' = NoTime
            ELSE UNCHANGED <<snakeVars, game_state, score, foods,
                             bonus_food_spawn_timer, gameover_detect_start,
                             grown_since_move>>
       ELSE /\ gameover_detect_start' = NoTime
            /\ UNCHANGED <<snakeVars, game_state, score, foods,
                           bonus_food_spawn_timer, grown_since_move>>

\* the body of run after update_from_shared_state, to the loop test
SimLogic(max_moves) ==
    /\ pc_sim = "logic"
    /\ \/ TickModal
       \/ TickMenu
       \/ TickPaused
       \/ TickPlaying(max_moves)
       \/ TickGameOver
    /\ pc_sim' = IF running THEN "events" ELSE "cleanup"
    /\ UNCHANGED <<ret, attempts, now, trackVars, camVars, slotVars, loc_finger_pos,
                   loc_finger_detected, finger_detected, last_finger_pos,
                   paused, muted, exit_confirmation, running, pub_seq,
                   shared_pos_pub, shared_det_pub, loc_pos_pub, loc_det_pub,
                   keys_used, cur_target, events, self_hit, wall_hit>>

\* a drawing call of the tick raises.  draw_background and draw_border of
\* the modal branch, draw_border before the state branches, food.draw,
\* snake.draw and draw_hud are called outside any try block; the first of
\* them follows update_from_shared_state, and the exception leaves run
\* before the tick has updated anything
SimDrawFails ==
    /\ pc_sim = "logic"
    /\ pc_sim' = "crashed"
    /\ UNCHANGED <<ret, attempts, snakeVars, now, trackVars, camVars, slotVars,
                   loc_finger_pos, loc_finger_detected, finger_detected,
                   last_finger_pos, game_state, menu_detect_start,
                   gameover_detect_start, score, highscore, highscore_file,
                   foods, bonus_food_spawn_timer, paused, muted,
                   exit_confirmation, running, pubVars, callVars>>

\* cleanup, up to the test of the camera thread: self.running = False, then
\* self.camera_thread.is_alive()
SimCleanup ==
    /\ pc_sim = "cleanup"
    /\ running' = FALSE
    /\ pc_sim' = IF pc_cam # "done" THEN "join" ELSE "exit"
    /\ UNCHANGED <<ret, attempts, snakeVars, now, trackVars, camVars, slotVars,
                   loc_finger_pos, loc_finger_detected, finger_detected,
                   last_finger_pos, game_state, menu_detect_start,
                   gameover_detect_start, score, highscore, highscore_file,
                   foods, bonus_food_spawn_timer, paused, muted,
                   exit_confirmation, pubVars, callVars>>

\* self.camera_thread.join(timeout=1.0) returns, the thread having exited or
\* the timeout having expired (the clock of the model does not measure it),
\* and cleanup runs to its end
SimJoin ==
    /\ pc_sim = "join"
    /\ pc_sim' = "exit"
    /\ UNCHANGED <<ret, attempts, snakeVars, now, trackVars, camVars, slotVars,
                   loc_finger_pos, loc_finger_detected, finger_detected,
                   last_finger_pos, game_state, menu_detect_start,
                   gameover_detect_start, score, highscore, highscore_file,
                   foods, bonus_food_spawn_timer, paused, muted,
                   exit_confirmation, running, pubVars, callVars>>

\* ------------------------------------------------------- the specifications
\* the game with each critical section taken as one step
NextGame ==
    \/ CamCheck
    \/ CamSkip
    \/ \E raw \in RawSamples : CamIteration(raw, MaxPublish)
    \/ \E key \in Keys : SimEvents(key, MaxKeys)
    \/ SimSnapshot
    \/ SimLogic(MaxMoves)
    \/ SimDrawFails
    \/ SimCleanup
    \/ SimJoin
    \/ ClockTick(MaxTime)

SpecGame == Init /\ [][NextGame]_vars

\* one session played without key events, each critical section one step
NextPlay ==
    \/ CamCheck
    \/ CamSkip
    \/ \E raw \in RawSamples : CamIteration(raw, MaxPlayPublish)
    \/ SimEvents("none", 0)
    \/ SimSnapshot
    \/ SimLogic(MaxPlayMoves)
    \/ ClockTick(MaxPlayTime)

SpecPlay == Init /\ [][NextPlay]_vars

\* the two threads with every access to the slot a step of its own
NextLock ==
    \/ CamCheck
    \/ CamSkip
    \/ \E raw \in RawSamples : CamTrack(raw, MaxLockPublish)
    \/ CamAcquire
    \/ CamWritePos
    \/ CamWriteDet
    \/ CamAcquireFrame
    \/ CamWriteFrame
    \/ SimEvents("none", 0)
    \/ SimAcquire
    \/ SimReadPos
    \/ SimReadDet
    \/ SimLogic(MaxLockMoves)
    \/ ClockTick(MaxLockTime)

SpecLock == Init /\ [][NextLock]_vars

\* the two threads while the game waits in its menu and the clock stands
\* still, every access to the slot one step
NextHandoff ==
    \/ CamCheck
    \/ CamSkip
    \/ \E raw \in RawSamples : CamTrack(raw, MaxHandoffPublish)
    \/ CamAcquire
    \/ CamWritePos
    \/ CamWriteDet
    \/ CamAcquireFrame
    \/ CamWriteFrame
    \/ SimEvents("none", 0)
    \/ SimAcquire
    \/ SimReadPos
    \/ SimReadDet
    \/ SimLogic(0)

\* with the scheduling the two loops give each other: a thread inside a with
\* block goes on (the blocks hold assignments only), and a thread waiting for
\* the lock gets it when it is free again and again (each loop sleeps between
\* its with blocks: time.sleep(0.01), clock.tick)
SpecLockFair ==
    /\ Init
    /\ [][NextHandoff]_vars
    /\ WF_vars(CamWritePos \/ CamWriteDet \/ CamWriteFrame)
    /\ WF_vars(SimReadPos \/ SimReadDet)
    /\ SF_vars(CamAcquire)
    /\ SF_vars(CamAcquireFrame)
    /\ SF_vars(SimAcquire)

\* the way out of the game: key and quit events, the ticks of the menu, and
\* cleanup beside the camera thread, the clock standing still
NextQuit ==
    \/ CamCheck
    \/ CamSkip
    \/ \E raw \in RawSamples : CamIteration(raw, MaxQuitPublish)
    \/ \E key \in Keys : SimEvents(key, MaxQuitKeys)
    \/ SimSnapshot
    \/ SimLogic(0)
    \/ SimCleanup
    \/ SimJoin

SpecQuit == Init /\ [][NextQuit]_vars

\* one Snake object, fresh from reset, updated again and again with one
\* target 300 px from its head: ahead, behind, above, below and aslant
ApproachTargets ==
    {<<700, 300>>, <<100, 300>>, <<400, 0>>, <<400, 600>>, <<580, 540>>}

NextApproach ==
    \E target_pos \in (IF cur_target = NoPos THEN ApproachTargets
                       ELSE {cur_target}) :
        SnakeUpdateUpTo(target_pos, MaxApproachUpdates)

SpecApproach == InitSnake /\ [][NextApproach]_vars

\* the camera thread alone, the finger at rest: the first frame shows it left
\* of, right of or at the point (320, 240), every later frame at that point
RestPoint == <<320, 240>>

RestStarts == {<<200, 240>>, <<440, 240>>, RestPoint}

NextRest ==
    \/ CamCheck
    \/ CamSkip
    \/ \E raw \in (IF pub_seq = 0 THEN RestStarts ELSE {RestPoint}) :
           CamIteration(raw, MaxRestPublish)

SpecRest == Init /\ [][NextRest]_vars

\* a session in progress.  The finger was shown at (17, 207) for 7 frames and
\* then at (136, 357), the loop ticking twice a frame: after frame 14 and tick
\* 28 the chain has turned back over itself and the head is three ticks from
\* its sixth point.  Points are given in hundredths of a pixel, the velocity
\* in ten-thousandths
FromCenti(c) == RDiv(c * Scale, 100)

SessionSegments ==
    [i \in 1..INITIAL_LENGTH |->
        LET c == <<<<30443, 29378>>, <<30943, 29366>>, <<30761, 29832>>,
                   <<30328, 30083>>, <<29846, 30213>>, <<29356, 30312>>,
                   <<28865, 30411>>>>[i]
        IN  <<FromCenti(c[1]), FromCenti(c[2])>>]

SessionVelocity ==
    <<-RDiv(39635 * VelScale, 10000), RDiv(3376 * VelScale, 10000)>>

\* position_history after the 14 frames: map_coordinates of the two points
SessionHistory ==
    [i \in 1..14 |-> IF i <= 7 THEN map_coordinates(<<17, 207>>)
                     ELSE map_coordinates(<<136, 357>>)]

\* the food of the session: a point the head reaches at its next tick, a
\* point it reaches at the tick that closes the chain, and a point far from it
SessionFoodPoints == {<<282, 300>>, <<274, 296>>, <<600, 450>>}

\* the highscore _load_highscore found: none, or one above the session's
SessionHighscores == {0, 2}

\* the session in progress, all but its clock
SessionFields ==
    /\ segments = SessionSegments
    /\ velocity = SessionVelocity
    /\ growth_pending = 0
    /\ speed_boost_end_time = 0
    /\ prev_position = <<136, 357>>
    /\ position_history = SessionHistory
    /\ smooth_pos = <<FromCenti(8014), FromCenti(33262)>>
    /\ pc_cam = "check"
    /\ tracker_new_pos = <<136, 357>>
    /\ cam_game_pos = <<80, 332>>
    /\ cam_detected = TRUE
    /\ frame_lock = "free"
    /\ shared_finger_pos = <<80, 332>>
    /\ shared_finger_detected = TRUE
    /\ latest_overlay_detected = TRUE
    /\ latest_frame_small = 0
    /\ pc_sim = "events"
    /\ loc_finger_pos = <<80, 332>>
    /\ loc_finger_detected = TRUE
    /\ finger_detected = TRUE
    /\ last_finger_pos = <<80, 332>>
    /\ game_state = "PLAYING"
    /\ menu_detect_start = NoTime
    /\ gameover_detect_start = NoTime
    /\ score = 0
    /\ highscore \in SessionHighscores
    /\ highscore_file = highscore
    /\ \E pos \in SessionFoodPoints :
           foods = <<food_respawn(NewFood(FALSE, pos), pos, 1)>>
    /\ bonus_food_spawn_timer = BONUS_FIRST_DELAY
    /\ paused = FALSE
    /\ muted = FALSE
    /\ exit_confirmation = FALSE
    /\ running = TRUE
    /\ pub_seq = 0
    /\ shared_pos_pub = 0
    /\ shared_det_pub = 0
    /\ loc_pos_pub = 0
    /\ loc_det_pub = 0
    /\ dec_pos_pub = 0
    /\ dec_det_pub = 0
    /\ keys_used = 0
    /\ last_call = "playing"
    /\ last_branch = "moved"
    /\ moves = 0
    /\ cur_target = NoPos
    /\ events = 0
    /\ self_hit = FALSE
    /\ wall_hit = FALSE
    /\ grown_since_move = 0
    /\ attempts = 0
    /\ ret = TRUE

\* the session in progress one second after the game was constructed
InitSession == SessionFields /\ now = 2

\* the game from its start and from the session in progress, without key
\* events, each critical section one step
NextSession ==
    \/ CamCheck
    \/ CamSkip
    \/ \E raw \in RawSamples : CamIteration(raw, MaxSessionPublish)
    \/ SimEvents("none", 0)
    \/ SimSnapshot
    \/ SimLogic(MaxSessionMoves)
    \/ ClockTick(MaxSessionTime)

SpecSession == (Init \/ InitSession) /\ [][NextSession]_vars

\* ---------------------------------------- the first bonus food of a session
\* the first session at its start, half a second before the first bonus food
\* is due: the game waited in the menu until the finger was shown at
\* (600, 240), and the dwell has just started the session
BonusStartFinger == <<600, 240>>

InitBonus ==
    /\ segments = reset_segments
    /\ velocity = <<0, 0>>
    /\ growth_pending = 0
    /\ speed_boost_end_time = 0
    /\ now = BONUS_FIRST_DELAY - 1
    /\ prev_position = BonusStartFinger
    /\ position_history = <<map_coordinates(BonusStartFinger)>>
    /\ smooth_pos = ToUnits(map_coordinates(BonusStartFinger))
    /\ pc_cam = "check"
    /\ tracker_new_pos = BonusStartFinger
    /\ cam_game_pos = map_coordinates(BonusStartFinger)
    /\ cam_detected = TRUE
    /\ frame_lock = "free"
    /\ shared_finger_pos = map_coordinates(BonusStartFinger)
    /\ shared_finger_detected = TRUE
    /\ latest_overlay_detected = TRUE
    /\ latest_frame_small = 0
    /\ pc_sim = "events"
    /\ loc_finger_pos = map_coordinates(BonusStartFinger)
    /\ loc_finger_detected = TRUE
    /\ finger_detected = TRUE
    /\ last_finger_pos = map_coordinates(BonusStartFinger)
    /\ game_state = "PLAYING"
    /\ menu_detect_start = NoTime
    /\ gameover_detect_start = NoTime
    /\ score = 0
    /\ highscore = 0
    /\ highscore_file = 0
    /\ \E pos \in RespawnPositions(FOOD_SIZE, reset_segments) :
           foods = <<food_respawn(NewFood(FALSE, pos), pos, now)>>
    /\ bonus_food_spawn_timer = BONUS_FIRST_DELAY
    /\ paused = FALSE
    /\ muted = FALSE
    /\ exit_confirmation = FALSE
    /\ running = TRUE
    /\ pub_seq = 0
    /\ shared_pos_pub = 0
    /\ shared_det_pub = 0
    /\ loc_pos_pub = 0
    /\ loc_det_pub = 0
    /\ dec_pos_pub = 0
    /\ dec_det_pub = 0
    /\ keys_used = 0
    /\ last_call = "menu"
    /\ last_branch = "none"
    /\ moves = 0
    /\ cur_target = NoPos
    /\ events = 0
    /\ self_hit = FALSE
    /\ wall_hit = FALSE
    /\ grown_since_move = 0
    /\ attempts = 0
    /\ ret = TRUE

\* with no bonus food in the list, the time until the next one is due passes
\* between two steps
ClockUntilBonus ==
    /\ Len(foods) < 2
    /\ now < bonus_food_spawn_timer
    /\ now' = bonus_food_spawn_timer
    /\ UNCHANGED <<ret, attempts, snakeVars, trackVars, camVars, slotVars, simVars,
                   pubVars, callVars>>

\* that session while the finger stays where it is: the main thread and the
\* clock, without key events
NextBonus ==
    \/ SimEvents("none", 0)
    \/ SimSnapshot
    \/ SimLogic(MaxBonusMoves)
    \/ ClockTick(MaxBonusTime)
    \/ ClockUntilBonus

SpecBonus == InitBonus /\ [][NextBonus]_vars

\* ------------------------------------------------------ the tracker alone
\* frames without a hand, with the finger at the centre of the picture, and
\* with it 280 px to the right or to the left of the centre
TrackerSamples == {NoPos, <<320, 240>>, <<600, 240>>, <<40, 240>>}

\* the camera thread while the main thread has not started its loop
NextTracker ==
    \/ CamCheck
    \/ CamSkip
    \/ \E raw \in TrackerSamples : CamIteration(raw, MaxTrackerPublish)

SpecTracker == Init /\ [][NextTracker]_vars

\* ------------------------------------------- pause and exit confirmation
\* the game from its start and from the session in progress, with key and
\* quit events, beside the camera thread, whose frames show no hand or the
\* finger at the centre of the picture; the clock stands still
PauseSamples == {NoPos, <<320, 240>>}

NextPause ==
    \/ CamCheck
    \/ CamSkip
    \/ \E raw \in PauseSamples : CamIteration(raw, MaxPausePublish)
    \/ \E key \in Keys : SimEvents(key, MaxPauseKeys)
    \/ SimSnapshot
    \/ SimLogic(MaxSessionMoves)

\* the session in progress with no highscore on file and its food at the
\* point the head reaches at its next tick
InitPause ==
    /\ InitSession
    /\ highscore = 0
    /\ foods[1].position = <<282, 300>>

SpecPause == (Init \/ InitPause) /\ [][NextPause]_vars

\* ------------------------------------------------ the item list of a session
\* the session in progress paused (or its finger lost) until half a second
\* before the first bonus food is due: its chain closes three ticks later
InitSessionLate == SessionFields /\ now = BONUS_FIRST_DELAY - 1

\* half a second passes while the game shows its game-over screen
ClockGameOver(max_time) == game_state = "GAME_OVER" /\ ClockTick(max_time)

\* the main thread and the clock, without key events, the finger where the
\* last publish saw it
NextItems ==
    \/ SimEvents("none", 0)
    \/ SimSnapshot
    \/ SimLogic(MaxBonusMoves)
    \/ ClockTick(MaxBonusTime)
    \/ ClockGameOver(MaxItemsTime)
    \/ ClockUntilBonus

\* two sessions at the time of their first bonus food: one at its start,
\* which goes on to eat, and one about to end in a game over and a restart
SpecItems == (InitBonus \/ InitSessionLate) /\ [][NextItems]_vars

\* ------------------------------------------ Food.respawn, attempt by attempt
\* random.randint(a, b): the two ends and the middle
randint(a, b) == {a, (a + b) \div 2, b}

\* the points Food.spawn can return
spawn ==
    randint(FOOD_SPAWN_MARGIN, GAME_WIDTH - FOOD_SPAWN_MARGIN)
        \X randint(FOOD_SPAWN_MARGIN, GAME_HEIGHT - FOOD_SPAWN_MARGIN)

\* the heads of the chains handed to Food.respawn: on a point spawn can
\* return, 40 px and 36 px to its left, 40 px to the right of a corner point
\* (the tail runs over it), and far from every such point
RespawnHeads ==
    {<<400, 300>>, <<360, 300>>, <<364, 300>>, <<90, 50>>, <<200, 200>>}

\* a chain lying to the left of one of these heads, and a regular food
InitRespawn ==
    /\ InitFields
    /\ \E head \in RespawnHeads :
           segments = [i \in 1..INITIAL_LENGTH |->
                          <<(head[1] - (i - 1) * SEGMENT_SPACING) * Scale,
                            head[2] * Scale>>]

\* Food.respawn(snake_segments) up to the loop, called on the food of the
\* list or on a food just constructed in its place (BonusFood() or
\* RegularFood() followed by respawn, as run does)
FoodRespawnCall ==
    /\ foods[1].visible
    /\ \E food \in {foods[1]} \cup {NewFood(bonus, pos) :
                                       bonus \in BOOLEAN, pos \in spawn} :
           foods' = <<[food EXCEPT !.visible = FALSE,
                                   !.respawn_timer =
                                       now + food_cooldown_time(food)]>>
    /\ attempts' = 0
    /\ last_call' = "respawn"
    /\ UNCHANGED <<ret, snakeVars, now, trackVars, camVars, slotVars,
                   pc_sim, loc_finger_pos, loc_finger_detected,
                   finger_detected, last_finger_pos, game_state,
                   menu_detect_start, gameover_detect_start, score, highscore,
                   highscore_file, bonus_food_spawn_timer, paused, muted,
                   exit_confirmation, running, pubVars, last_branch, moves,
                   cur_target, events, self_hit, wall_hit, grown_since_move>>

\* one pass of the loop of Food.respawn, or the fallback after it
FoodRespawnStep ==
    /\ ~foods[1].visible
    /\ \E new_pos \in spawn :
           IF attempts < RESPAWN_ATTEMPTS
           THEN IF ValidSpawn(new_pos, food_size(foods[1]), segments)
                THEN /\ foods' = <<[foods[1] EXCEPT !.position = new_pos,
                                                    !.visible = TRUE]>>
                     /\ attempts' = attempts
                ELSE /\ attempts' = attempts + 1
                     /\ foods' = foods
           ELSE /\ foods' = <<[foods[1] EXCEPT !.position = new_pos,
                                               !.visible = TRUE]>>
                /\ attempts' = attempts
    /\ last_call' = "respawn"
    /\ UNCHANGED <<ret, snakeVars, now, trackVars, camVars, slotVars,
                   pc_sim, loc_finger_pos, loc_finger_detected,
                   finger_detected, last_finger_pos, game_state,
                   menu_detect_start, gameover_detect_start, score, highscore,
                   highscore_file, bonus_food_spawn_timer, paused, muted,
                   exit_confirmation, running, pubVars, last_branch, moves,
                   cur_target, events, self_hit, wall_hit, grown_since_move>>

NextRespawn ==
    \/ FoodRespawnCall
    \/ FoodRespawnStep

\* calls of Food.respawn against every such chain
SpecRespawn == InitRespawn /\ [][NextRespawn]_vars

\* ------------------------------------------------------------ the properties
\* the two reads of update_from_shared_state
Reading == pc_sim \in {"r_pos", "r_det"}

\* the writes of camera_loop inside its two with blocks
Writing == pc_cam \in {"w_pos", "w_det", "w_frame"}

\* the square of the distance of two points
Dist2(p, q) == (p[1] - q[1]) * (p[1] - q[1]) + (p[2] - q[2]) * (p[2] - q[2])

\* C1: in every interleaving of the two threads, once update_from_shared_state
\* has copied the pair out of the slot, the position and the detected flag it
\* holds were written by one and the same publish of camera_loop
C1_SnapshotFromOnePublish ==
    pc_sim # "r_det" => loc_pos_pub = loc_det_pub

\* a snapshot of the second publish, taken after the first one was read
C1_Witness ==
    /\ pc_sim = "logic"
    /\ loc_pos_pub = 2
    /\ loc_det_pub = 2
    /\ loc_finger_detected

\* C2: the start test of a MENU or GAME_OVER tick uses a position and a
\* detected flag that come from one publish of camera_loop
C2_StartTestFromOnePublish ==
    last_call \in {"menu", "gameover"} => dec_pos_pub = dec_det_pub

\* C3 as stated: camera_loop never waits to publish because
\* update_from_shared_state holds the lock
C3_WriterNeverWaits ==
    ~(pc_cam = "lock" /\ frame_lock = "sim")

\* C3: a thread holds the lock exactly while it copies the slot fields (the
\* main thread during its two reads, the camera thread during its writes),
\* never both at once and never during any other step, so a publish waits for
\* a reader no longer than the reader's copy lasts
C3_LockHeldOnlyDuringCopy ==
    /\ frame_lock = "sim" <=> Reading
    /\ frame_lock = "cam" <=> Writing
    /\ ~(Reading /\ Writing)

\* camera_loop has a pair to publish while update_from_shared_state is in the
\* middle of its copy
C3_Witness ==
    /\ pc_cam = "lock"
    /\ frame_lock = "sim"
    /\ pc_sim = "r_det"
    /\ cam_detected

\* C4: each read of the slot returns the fields of the latest publish; a read
\* with no publish since the read before returns the same value again; and
\* camera_loop can publish whenever the lock is free, whether or not the pair
\* in the slot was ever read
C4_SingleValueMailbox ==
    /\ [](pc_cam = "lock" /\ frame_lock = "free" => ENABLED CamAcquire)
    /\ [][/\ (pc_sim = "r_pos" /\ pc_sim' = "r_det")
              => /\ loc_finger_pos' = shared_finger_pos
                 /\ loc_pos_pub' = pub_seq
                 /\ loc_pos_pub = pub_seq => loc_finger_pos' = loc_finger_pos
          /\ (pc_sim = "r_det" /\ pc_sim' = "logic")
              => /\ loc_finger_detected' = shared_finger_detected
                 /\ loc_det_pub' = pub_seq
                 /\ loc_det_pub = pub_seq
                        => loc_finger_detected' = loc_finger_detected]_vars

\* two publishes since the last read: the first of them is never read
C4_Witness ==
    /\ pc_sim = "lock"
    /\ last_call # "init"
    /\ loc_det_pub = 0
    /\ pub_seq = 2
    /\ shared_det_pub = 2

\* C5: Snake.update(None) returns with the chain and the velocity as they
\* were, in every state the game reaches; and a PLAYING tick whose snapshot
\* has detected = false leaves the chain and the velocity as they were,
\* whatever last_finger_pos holds
C5_NoTargetNoMove ==
    /\ [](snake_update(segments, velocity, growth_pending,
                       get_max_speed(now, speed_boost_end_time), NoPos)
            = [segments |-> segments, velocity |-> velocity,
               branch |-> "none"])
    /\ [][(last_call' = "playing" /\ ~finger_detected)
             => /\ segments' = segments
                /\ velocity' = velocity]_vars

\* a PLAYING tick without detection, after the chain has moved, with the
\* earlier position still in last_finger_pos
C5_Witness ==
    /\ last_call = "playing"
    /\ last_branch = "skipped"
    /\ ~finger_detected
    /\ last_finger_pos # NoPos
    /\ moves >= 1
    /\ velocity # <<0, 0>>

\* C6: a call Snake.update(target) with the target closer than
\* MIN_DISTANCE_TO_MOVE to the head leaves every point of the chain and the
\* velocity as they were
C6_DeadZone ==
    [][(/\ last_call' = "update"
        /\ cur_target' # NoPos
        /\ Dist2(ToUnits(cur_target'), segments[1])
               < (MIN_DISTANCE_TO_MOVE * Scale) * (MIN_DISTANCE_TO_MOVE * Scale))
          => /\ segments' = segments
             /\ velocity' = velocity]_vars

\* a call in the dead zone made while the chain is moving
C6_Witness ==
    /\ last_call = "update"
    /\ last_branch = "dead"
    /\ moves >= 1
    /\ velocity # <<0, 0>>

\* C7 as stated: no call of Snake.update changes the length of the chain by
\* more than 1
C7_OnePointPerUpdate ==
    [][last_call' = "update"
          => /\ Len(segments') - Len(segments) <= 1
             /\ Len(segments) - Len(segments') <= 1]_vars

\* C8 as stated: at every tick boundary the length of the chain differs from
\* INITIAL_LENGTH + growth_pending by at most 1
C8_LengthWithinOne ==
    pc_sim = "events"
        => /\ INITIAL_LENGTH + growth_pending - Len(segments) <= 1
           /\ Len(segments) - (INITIAL_LENGTH + growth_pending) <= 1

\* C8: at every tick boundary the chain has at least INITIAL_LENGTH points
\* and at most INITIAL_LENGTH + growth_pending, and it is short of that
\* target by exactly the growth granted since the chain last moved
C8_LengthBelowTargetByNewGrowth ==
    pc_sim = "events"
        => /\ Len(segments) >= INITIAL_LENGTH
           /\ Len(segments) <= INITIAL_LENGTH + growth_pending
           /\ INITIAL_LENGTH + growth_pending - Len(segments) = grown_since_move

\* the tick boundary right after a food was eaten: two points short
C8_Witness ==
    /\ pc_sim = "events"
    /\ score >= 1
    /\ growth_pending = GROWTH_RATE * score
    /\ Len(segments) = INITIAL_LENGTH + growth_pending - GROWTH_RATE

\* C9: after any sequence of Snake.reset, Snake.grow, Snake.activate_boost
\* and Snake.update calls, every two adjacent points of the chain are
\* SEGMENT_SPACING apart, within the rounding of the fixed-point chain
C9_AdjacentSpacing ==
    \A i \in 1..(Len(segments) - 1) :
        /\ Dist2(segments[i], segments[i + 1])
               >= (SEGMENT_SPACING * Scale - SpacingTol)
                      * (SEGMENT_SPACING * Scale - SpacingTol)
        /\ Dist2(segments[i], segments[i + 1])
               <= (SEGMENT_SPACING * Scale + SpacingTol)
                      * (SEGMENT_SPACING * Scale + SpacingTol)

\* a boosted head step longer than SEGMENT_SPACING, on a chain that has grown
C9_Witness ==
    /\ last_call = "update"
    /\ last_branch = "moved"
    /\ velocity[1] > SEGMENT_SPACING * VelScale
    /\ growth_pending > 0
    /\ Len(segments) = INITIAL_LENGTH + growth_pending

\* C10: check_self_collision returns true exactly when the chain has more
\* than SELF_COLLISION_IGNORE points and one of those from index
\* SELF_COLLISION_IGNORE on is closer than COLLISION_THRESHOLD to the head,
\* and the call leaves the chain as it was
C10_SelfCollisionExact ==
    /\ [](last_call = "check"
            => (self_hit <=>
                  /\ Len(segments) > SELF_COLLISION_IGNORE
                  /\ \E i \in (SELF_COLLISION_IGNORE + 1)..Len(segments) :
                         Dist2(segments[1], segments[i])
                             < (COLLISION_THRESHOLD * Scale)
                                   * (COLLISION_THRESHOLD * Scale)))
    /\ [][last_call' = "check" => segments' = segments]_vars

\* a chain of SELF_COLLISION_IGNORE + 3 points whose head is within reach of
\* the last point the check skips and of none it looks at: no collision
C10_Witness ==
    /\ last_call = "check"
    /\ ~self_hit
    /\ Len(segments) = SELF_COLLISION_IGNORE + 3
    /\ Dist2(segments[1], segments[SELF_COLLISION_IGNORE])
           < (COLLISION_THRESHOLD * Scale) * (COLLISION_THRESHOLD * Scale)

\* the distance of a point from the nearest of the four playfield edges,
\* negative outside the playfield (units)
EdgeDistance(p) ==
    Min(Min(p[1], GAME_WIDTH * Scale - p[1]),
        Min(p[2], GAME_HEIGHT * Scale - p[2]))

\* C11 as stated: check_wall_collision returns true exactly when the head is
\* at distance WALL_COLLISION_MARGIN or less from one of the four edges
C11_WallWithinMarginInclusive ==
    last_call = "wallcheck"
        => (wall_hit <=>
              EdgeDistance(segments[1]) <= WALL_COLLISION_MARGIN * Scale)

\* C11: check_wall_collision returns true exactly when the head is closer
\* than WALL_COLLISION_MARGIN to one of the four edges (or beyond it); a head
\* at exactly that distance from the nearest edge gives false; the call
\* leaves the chain as it was
C11_WallWithinMarginStrict ==
    /\ [](last_call = "wallcheck"
            => (wall_hit <=>
                  EdgeDistance(segments[1]) < WALL_COLLISION_MARGIN * Scale))
    /\ [][last_call' = "wallcheck" => segments' = segments]_vars

\* a head exactly WALL_COLLISION_MARGIN from the left edge and far from the
\* others: no collision
C11_Witness ==
    /\ last_call = "wallcheck"
    /\ ~wall_hit
    /\ segments[1] = <<WALL_COLLISION_MARGIN * Scale,
                       (GAME_HEIGHT \div 2) * Scale>>

\* C12 as stated: a PLAYING tick in which the head consumes the regular food
\* item (the score rises by its value) leaves that item invisible, and it
\* stays invisible in every tick before its respawn_timer
C12_ConsumedItemCoolsDown ==
    [][/\ (last_call' = "playing" /\ score' = score + REGULAR_SCORE)
              => ~foods'[1].visible
       /\ (last_call' = "playing" /\ ~foods[1].visible
              /\ now < foods[1].respawn_timer)
              => ~foods'[1].visible]_vars

\* C13: an iteration of camera_loop on a frame in which no hand is found
\* leaves position_history and smooth_pos as they were, and its publish
\* carries detected = False
C13_LostSampleNotSmoothed ==
    [][(pub_seq' = pub_seq + 1 /\ tracker_new_pos' = NoPos)
          => /\ position_history' = position_history
             /\ smooth_pos' = smooth_pos
             /\ shared_det_pub' = pub_seq'
             /\ ~shared_finger_detected']_vars

\* a frame without a hand, after a frame with one was smoothed and published
C13_Witness ==
    /\ pub_seq = 2
    /\ tracker_new_pos = NoPos
    /\ prev_position # NoPos
    /\ Len(position_history) = 1
    /\ smooth_pos # NoPos
    /\ shared_det_pub = 2
    /\ ~shared_finger_detected

\* C14: a found sample farther than JUMP_THRESHOLD from the previously emitted
\* raw point leaves the emitted point (prev_position) as it was, is published
\* with detected = True, and the point fed to the smoother is the previous
\* point, not the outlier
C14_OutlierReemitsPrevious ==
    [][(/\ pub_seq' = pub_seq + 1
        /\ tracker_new_pos' # NoPos
        /\ prev_position # NoPos
        /\ Dist2(tracker_new_pos', prev_position)
               > JUMP_THRESHOLD * JUMP_THRESHOLD)
          => /\ prev_position' = prev_position
             /\ shared_finger_detected'
             /\ position_history' # <<>>
             /\ position_history'[Len(position_history')]
                    = map_coordinates(prev_position)
             /\ position_history'[Len(position_history')]
                    # map_coordinates(tracker_new_pos')]_vars

\* the second frame shows the finger 280 px from the first frame's point
C14_Witness ==
    /\ pub_seq = 2
    /\ prev_position = <<320, 240>>
    /\ tracker_new_pos = <<600, 240>>
    /\ Len(position_history) = 2
    /\ position_history[2] = position_history[1]
    /\ shared_finger_detected

\* C15: the dwell timer of the state a tick is in is reset by every tick whose
\* snapshot has detection false, the ticks that show the exit-confirmation
\* modal included, so that a transition to PLAYING follows TRANSITION_DELAY of
\* unbroken detection
C15_GapResetsDwellTimer ==
    [][(pc_sim = "logic" /\ pc_sim' # "logic" /\ ~finger_detected)
          => /\ game_state = "MENU" => menu_detect_start' = NoTime
             /\ game_state = "GAME_OVER"
                    => gameover_detect_start' = NoTime]_vars

\* C16: when a tick has ended and the game is PLAYING, the head is neither
\* within COLLISION_THRESHOLD of a point of the chain past the first
\* SELF_COLLISION_IGNORE nor outside the wall margin
C16_NoPlayingAfterCollision ==
    (pc_sim = "events" /\ game_state = "PLAYING")
        => /\ \A i \in (SELF_COLLISION_IGNORE + 1)..Len(segments) :
                  Dist2(segments[1], segments[i])
                      >= (COLLISION_THRESHOLD * Scale) * (COLLISION_THRESHOLD * Scale)
           /\ EdgeDistance(segments[1]) >= WALL_COLLISION_MARGIN * Scale

\* the tick that closed the chain on itself ended the session
C16_Witness ==
    /\ pc_sim = "events"
    /\ last_call = "playing"
    /\ game_state = "GAME_OVER"
    /\ check_self_collision(segments)
    /\ moves = 3

\* C17: game_state is MENU, PLAYING or GAME_OVER; it is MENU until the first
\* tick, and it changes only from MENU to PLAYING, from PLAYING to GAME_OVER
\* and from GAME_OVER to PLAYING, so that MENU is never entered again
C17_StateMachine ==
    /\ [](game_state \in {"MENU", "PLAYING", "GAME_OVER"})
    /\ [](last_call = "init" => game_state = "MENU")
    /\ [][game_state' # game_state
            => <<game_state, game_state'>>
                   \in {<<"MENU", "PLAYING">>, <<"PLAYING", "GAME_OVER">>,
                        <<"GAME_OVER", "PLAYING">>}]_vars

\* a finished session was left for a new one
C17_Witness ==
    /\ last_call = "gameover"
    /\ game_state = "PLAYING"
    /\ segments = reset_segments
    /\ score = 0

\* C19: highscore changes, and highscore.json is written, only by a tick
\* that ends a session whose score is above the highscore, and then to that
\* score; highscore never decreases, and it is at least the score in every
\* GAME_OVER state
C19_HighscoreOnlyWhenBeaten ==
    /\ [][/\ (highscore' # highscore)
              => (/\ game_state = "PLAYING" /\ game_state' = "GAME_OVER"
                  /\ score' > highscore
                  /\ highscore' = score')
          /\ (highscore_file' # highscore_file)
              => (/\ highscore' # highscore
                  /\ highscore_file' = score')
          /\ highscore' >= highscore]_vars
    /\ [](game_state = "GAME_OVER" => highscore >= score)

\* a session that ate once ended above a highscore of 0, and the file was
\* written
C19_Witness ==
    /\ game_state = "GAME_OVER"
    /\ last_call = "playing"
    /\ score = 1
    /\ highscore = 1
    /\ highscore_file = 1

\* C18: once running is False it stays False; camera_loop starts an iteration
\* only while running is True, so that after the flag falls it finishes the
\* iteration it is in, leaves at its next loop check and never comes back;
\* the join of cleanup can return whether or not the thread has exited, and
\* cleanup has then run with running False
C18_CancellationBounded ==
    /\ [][~running => ~running']_vars
    /\ [][(pc_cam # "capture" /\ pc_cam' = "capture") => running]_vars
    /\ [][(~running /\ pc_cam = "check" /\ pc_cam' # pc_cam)
              => pc_cam' = "done"]_vars
    /\ [][pc_cam = "done" => pc_cam' = "done"]_vars
    /\ [](pc_sim = "join" => ENABLED SimJoin)
    /\ [](pc_sim = "exit" => ~running)

\* cleanup has run to its end while the camera thread was inside an
\* iteration it started before the flag fell
C18_Witness ==
    /\ pc_sim = "exit"
    /\ ~running
    /\ pc_cam = "capture"

\* C20: no failure of a drawing or sound call takes the loop out of a tick:
\* run is never left by an exception
C20_TickSurvivesCollaboratorFailure == pc_sim # "crashed"

\* C21: when position_history holds the point p in all SMOOTHING_WINDOW slots
\* and one more sample of p leaves smooth_pos as it is (the smoother has
\* come to rest under the constant stream), the point smooth_position
\* returned is p
C21_ConstantStreamConverges ==
    LET p == map_coordinates(prev_position)
    IN  (/\ prev_position # NoPos
         /\ Len(position_history) = SMOOTHING_WINDOW
         /\ \A i \in 1..SMOOTHING_WINDOW : position_history[i] = p
         /\ smooth_position(position_history, smooth_pos, p).smooth_pos
                = smooth_pos)
            => cam_game_pos = p

\* C22: with one target 300 px from the head of a reset chain at rest, every
\* Snake.update outside the dead zone moves the head strictly nearer to the
\* target, inside it the chain stays, and the dead zone is reached before
\* MaxApproachUpdates moves
C22_ApproachMonotone ==
    /\ [](moves < MaxApproachUpdates)
    /\ [][(last_call' = "update"
             /\ ~InDeadZone(segments[1], cur_target'))
              => /\ last_branch' = "moved"
                 /\ Dist2(segments'[1], ToUnits(cur_target'))
                        < Dist2(segments[1], ToUnits(cur_target'))]_vars
    /\ [][(last_call' = "update" /\ InDeadZone(segments[1], cur_target'))
              => segments' = segments]_vars

\* the head has come to rest in the dead zone of the target
C22_Witness ==
    /\ cur_target = <<700, 300>>
    /\ last_branch = "dead"
    /\ InDeadZone(segments[1], cur_target)
    /\ moves > 100

\* C23: a tick that eats a bonus food ends without a bonus food in the list
\* and with the boost running for BONUS_BOOST_DURATION from now; every tick
\* of a session leaves exactly one regular food in the list, and a tick that
\* eats it has respawned it at a point Food.respawn can end with; and a bonus
\* food comes into the list only by the spawn of a tick, never by a respawn
C23_BonusRemovedRegularRespawned ==
    [][/\ (last_call' = "playing" /\ score' >= score + BONUS_SCORE)
              => (/\ \A i \in DOMAIN foods' : ~foods'[i].is_bonus
                  /\ speed_boost_end_time' = now + BONUS_BOOST_DURATION)
       /\ (game_state = "PLAYING" /\ game_state' = "PLAYING")
              => (/\ Cardinality({i \in DOMAIN foods : ~foods[i].is_bonus}) = 1
                  /\ Cardinality({i \in DOMAIN foods' : ~foods'[i].is_bonus}) = 1)
       /\ (last_call' = "playing"
               /\ score' - score \in {REGULAR_SCORE, REGULAR_SCORE + BONUS_SCORE})
              => (\E i \in DOMAIN foods' :
                      /\ ~foods'[i].is_bonus
                      /\ foods'[i].position
                             \in RespawnPositions(FOOD_SIZE, segments')
                      /\ foods'[i].respawn_timer = now + REGULAR_COOLDOWN)
       /\ ((\E i \in DOMAIN foods' : foods'[i].is_bonus)
               /\ (\A i \in DOMAIN foods : ~foods[i].is_bonus))
              => (/\ last_call' = "playing"
                  /\ Len(foods) < 2
                  /\ now >= bonus_food_spawn_timer)]_vars

\* a bonus food was spawned and eaten: the boost runs and the regular food is
\* the only item left
C23_Witness ==
    /\ game_state = "PLAYING"
    /\ score >= BONUS_SCORE
    /\ \A i \in DOMAIN foods : ~foods[i].is_bonus
    /\ speed_boost_end_time > now
    /\ Len(foods) = 1

\* C24: a call of Food.respawn makes at most RESPAWN_ATTEMPTS rejected draws,
\* every pass of its loop ends the call or counts one more rejected draw, and
\* a pass can always be made; the call ends with the food visible at a point
\* of the playfield inset by FOOD_SPAWN_MARGIN that is at least
\* SNAKE_SEGMENT_SIZE + size + 10 from every point of the chain, unless
\* RESPAWN_ATTEMPTS draws were rejected before
C24_RespawnValidOrExhausted ==
    /\ [](/\ attempts <= RESPAWN_ATTEMPTS
          /\ (~foods[1].visible) => ENABLED FoodRespawnStep)
    /\ [][(~foods[1].visible)
              => (foods'[1].visible \/ attempts' = attempts + 1)]_vars
    /\ [][(~foods[1].visible /\ foods'[1].visible)
              => (/\ foods'[1].position[1] >= FOOD_SPAWN_MARGIN
                  /\ foods'[1].position[1] <= GAME_WIDTH - FOOD_SPAWN_MARGIN
                  /\ foods'[1].position[2] >= FOOD_SPAWN_MARGIN
                  /\ foods'[1].position[2] <= GAME_HEIGHT - FOOD_SPAWN_MARGIN
                  /\ \/ attempts = RESPAWN_ATTEMPTS
                     \/ \A i \in 1..Len(segments) :
                            Dist2(ToUnits(foods'[1].position), segments[i])
                                >= ((SNAKE_SEGMENT_SIZE + food_size(foods[1])
                                        + RESPAWN_BUFFER) * Scale)
                                   * ((SNAKE_SEGMENT_SIZE + food_size(foods[1])
                                        + RESPAWN_BUFFER) * Scale))]_vars

\* a call has ended after RESPAWN_ATTEMPTS rejected draws, with the bonus
\* food on the head of the chain
C24_Witness ==
    /\ last_call = "respawn"
    /\ foods[1].visible
    /\ foods[1].is_bonus
    /\ attempts = RESPAWN_ATTEMPTS
    /\ ToUnits(foods[1].position) = segments[1]

\* C25: a tick of the PLAYING branch puts a new bonus food into the list
\* exactly when the list holds fewer than two items and the time has reached
\* bonus_food_spawn_timer; that tick sets the timer to between
\* BONUS_MIN_INTERVAL and BONUS_MAX_INTERVAL from now and no other tick of the
\* session changes it; and while the bonus food of the last spawn is in the
\* list, the timer is at least BONUS_MIN_INTERVAL after the time of that spawn
C25_BonusSpawnTimed ==
    /\ [][(pc_sim = "logic" /\ pc_sim' # "logic" /\ last_call' = "playing")
              => (/\ (Len(foods) < 2 /\ now >= bonus_food_spawn_timer)
                         <=> (/\ \A i \in DOMAIN foods : ~foods[i].is_bonus
                              /\ \/ \E i \in DOMAIN foods' : foods'[i].is_bonus
                                 \/ score' >= score + BONUS_SCORE)
                  /\ (Len(foods) < 2 /\ now >= bonus_food_spawn_timer)
                         => (/\ bonus_food_spawn_timer' >= now + BONUS_MIN_INTERVAL
                             /\ bonus_food_spawn_timer' <= now + BONUS_MAX_INTERVAL)
                  /\ ~(Len(foods) < 2 /\ now >= bonus_food_spawn_timer)
                         => bonus_food_spawn_timer' = bonus_food_spawn_timer)]_vars
    /\ [](\A i \in DOMAIN foods :
              (game_state = "PLAYING" /\ foods[i].is_bonus)
                  => bonus_food_spawn_timer
                         >= foods[i].respawn_timer - BONUS_COOLDOWN
                                + BONUS_MIN_INTERVAL)

\* the second bonus food of the session is in the list, BONUS_MIN_INTERVAL or
\* more after the first one was due
C25_Witness ==
    /\ game_state = "PLAYING"
    /\ score >= BONUS_SCORE
    /\ Len(foods) = 2
    /\ foods[2].is_bonus
    /\ foods[2].respawn_timer - BONUS_COOLDOWN
           >= BONUS_FIRST_DELAY + BONUS_MIN_INTERVAL

\* C26: the tick works on what update_from_shared_state read just before it;
\* it advances the chain with the growth it started with, evaluates the
\* foods against the advanced head and adds their score and growth, and then
\* tests the advanced chain for a collision; a tick that ends the game
\* compares the score with the food of that tick in it against the highscore
C26_TickOrder ==
    /\ [][(pc_sim' = "logic" /\ pc_sim # "logic")
              => (/\ pc_sim = "lock"
                  /\ finger_detected' = shared_finger_detected
                  /\ last_finger_pos' = KeepLast(last_finger_pos,
                                                 shared_finger_pos))]_vars
    /\ [][(pc_sim = "logic" /\ pc_sim' # "logic" /\ last_call' = "playing")
              => (/\ segments' =
                         IF ShouldAdvance(finger_detected, last_finger_pos)
                         THEN snake_update(segments, velocity, growth_pending,
                                  get_max_speed(now, speed_boost_end_time),
                                  last_finger_pos).segments
                         ELSE segments
                  /\ score' = score
                         + ScoreGained([i \in 1..Len(foods) |->
                                           food_update(foods[i], now)],
                                       segments'[1])
                  /\ growth_pending' =
                         growth_pending + (score' - score) * GROWTH_RATE
                  /\ (game_state' = "GAME_OVER") <=> CollisionTest(segments')
                  /\ (game_state' = "GAME_OVER")
                         => highscore' = (IF score' > highscore THEN score'
                                          ELSE highscore))]_vars

\* the game is over, and the tick that ended it ate the food: its score is
\* the final score and the new highscore
C26_Witness ==
    /\ game_state = "GAME_OVER"
    /\ last_call = "playing"
    /\ grown_since_move = REGULAR_SCORE * GROWTH_RATE
    /\ score = REGULAR_SCORE
    /\ highscore = score

\* C27: an iteration of camera_loop whose read fails goes back to the loop
\* test without a change to the tracker, the smoother, the locals it
\* publishes from or the slot; and the loop test sends a running game to the
\* next read
C27_FailedReadSkipped ==
    /\ [][(pc_cam = "capture" /\ pc_cam' # "capture" /\ ~ret')
              => (/\ pc_cam' = "check"
                  /\ UNCHANGED <<trackVars, tracker_new_pos, cam_game_pos,
                                 cam_detected, slotVars, pub_seq,
                                 shared_pos_pub, shared_det_pub>>)]_vars
    /\ [][(pc_cam = "check" /\ pc_cam' # "check" /\ running)
              => pc_cam' = "capture"]_vars

\* a read failed after a position had been published, and the loop is at its
\* next read with the position still in the slot
C27_Witness ==
    /\ ~ret
    /\ pc_cam = "capture"
    /\ pub_seq > 0
    /\ shared_finger_pos # NoPos
    /\ position_history # <<>>

\* C28: activate_boost(d) sets the expiry to now + d, whatever it was; an
\* update that moves the head blends the velocity toward 1.5 x MAX_SPEED when
\* now is before the expiry and toward MAX_SPEED otherwise, and leaves the
\* expiry and the clock alone
C28_BoostRefreshed ==
    /\ [][(last_call' = "boost" /\ events' # events /\ now' = now)
              => speed_boost_end_time' = now + BONUS_BOOST_DURATION]_vars
    /\ [][(last_call' = "update" /\ moves' # moves)
              => (/\ velocity' =
                         NewVelocity(velocity, segments[1], cur_target',
                                     IF now < speed_boost_end_time
                                     THEN (3 * MAX_SPEED * VelScale) \div 2
                                     ELSE MAX_SPEED * VelScale)
                  /\ speed_boost_end_time' = speed_boost_end_time
                  /\ now' = now)]_vars

\* a boost was activated after another call, and the boosted speed applies
C28_Witness ==
    /\ last_call = "boost"
    /\ events >= 2
    /\ speed_boost_end_time = now + BONUS_BOOST_DURATION
    /\ get_max_speed(now, speed_boost_end_time) > MAX_SPEED * VelScale

\* C29: a thread that holds the lock is at one of its copy steps and can take
\* that step whatever the other thread does; the tracker and the smoother
\* change, and the tick runs, while their own thread does not hold the lock;
\* and a thread that has come to a with block gets the lock
C29_LockAlwaysObtained ==
    /\ [](/\ frame_lock = "cam"
              => (/\ pc_cam \in {"w_pos", "w_det", "w_frame"}
                  /\ ENABLED (CamWritePos \/ CamWriteDet \/ CamWriteFrame))
          /\ frame_lock = "sim"
              => (/\ pc_sim \in {"r_pos", "r_det"}
                  /\ ENABLED (SimReadPos \/ SimReadDet)))
    /\ [][/\ (trackVars' # trackVars \/ pc_cam = "capture")
              => (frame_lock # "cam" /\ frame_lock' # "cam")
          /\ (pc_sim = "logic" \/ pc_sim = "events")
              => (frame_lock # "sim" /\ frame_lock' # "sim")]_vars
    /\ (pc_cam = "lock") ~> (frame_lock = "cam")
    /\ (pc_cam = "lock2") ~> (frame_lock = "cam")
    /\ (pc_sim = "lock") ~> (frame_lock = "sim")

\* the main thread has come to its with block while camera_loop stores the
\* preview frame under the lock
C29_Witness ==
    /\ pc_sim = "lock"
    /\ frame_lock = "cam"
    /\ pc_cam = "w_frame"

\* C30: last_finger_pos, once a position, stays a position; it changes only
\* when update_from_shared_state reads a position from the slot, and then to
\* that position, so that a read of None, a tick, a reset of the chain and a
\* restart of the game leave it as it was
C30_LastTargetKept ==
    /\ [][(last_finger_pos # NoPos) => (last_finger_pos' # NoPos)]_vars
    /\ [][(last_finger_pos' # last_finger_pos)
              => (/\ pc_sim = "lock"
                  /\ pc_sim' = "logic"
                  /\ shared_finger_pos # NoPos
                  /\ last_finger_pos' = shared_finger_pos)]_vars

\* the game has been restarted after a game over: the chain is reset and the
\* last position is still there
C30_Witness ==
    /\ last_call = "gameover"
    /\ game_state = "PLAYING"
    /\ segments = reset_segments
    /\ last_finger_pos # NoPos

\* C31: at every tick boundary the growth the chain has been granted is
\* GROWTH_RATE times the score: Snake.reset and self.score = 0 clear both
\* when a session starts, and every food eaten adds food.score to the one
\* and food.score * GROWTH_RATE to the other
C31_GrowthMatchesScore == growth_pending = GROWTH_RATE * score

\* a session in which food has been eaten and the chain has grown by it
C31_Witness ==
    /\ game_state = "PLAYING"
    /\ last_call = "playing"
    /\ score > 0
    /\ growth_pending = GROWTH_RATE * score
    /\ Len(segments) = INITIAL_LENGTH + growth_pending

\* C32: at every tick boundary the item list holds exactly one regular food
\* and at most one bonus food, so between one and two items, whatever was
\* spawned, eaten or restarted before
C32_OneRegularAtMostOneBonus ==
    /\ Len(foods) \in 1..2
    /\ Cardinality({i \in DOMAIN foods : ~foods[i].is_bonus}) = 1
    /\ Cardinality({i \in DOMAIN foods : foods[i].is_bonus}) <= 1

\* a session restarted after a game over at least 15 s into the game: the
\* bonus timer was re-armed and the list is the one regular food again
C32_Witness ==
    /\ game_state = "PLAYING"
    /\ last_call = "gameover"
    /\ bonus_food_spawn_timer > BONUS_FIRST_DELAY + BONUS_FIRST_DELAY
    /\ Len(foods) = 1
    /\ ~foods[1].is_bonus

\* C33: right after a Snake.update call that inserted a head, the chain has
\* exactly INITIAL_LENGTH + growth_pending points; and in every state it has
\* at least INITIAL_LENGTH points, so it is never empty and never shorter
\* than two points
C33_LengthIsTargetAfterMove ==
    /\ (last_call = "update" /\ last_branch = "moved")
           => Len(segments) = INITIAL_LENGTH + growth_pending
    /\ Len(segments) >= INITIAL_LENGTH
    /\ Len(segments) >= 2

\* a moving update after Snake.grow: the chain was filled up to its target
C33_Witness ==
    /\ last_call = "update"
    /\ last_branch = "moved"
    /\ growth_pending > 0
    /\ Len(segments) = INITIAL_LENGTH + growth_pending

\* C34 as stated: in every state the slot holds a position exactly when it
\* holds detected = true
C34_PairConsistentAlways ==
    shared_finger_pos = NoPos <=> ~shared_finger_detected

\* C34: whenever camera_loop is not inside its publish (it does not hold
\* frame_lock) the slot holds a position exactly when it holds detected =
\* true; and every snapshot update_from_shared_state has completed holds a
\* position exactly when it holds detected = true, which is also the value
\* it left in self.finger_detected
C34_PairConsistentOutsidePublish ==
    /\ frame_lock # "cam"
           => (shared_finger_pos = NoPos <=> ~shared_finger_detected)
    /\ pc_sim # "r_det"
           => /\ loc_finger_pos = NoPos <=> ~loc_finger_detected
              /\ finger_detected = loc_finger_detected

\* a completed snapshot of a publish with the finger, while the slot already
\* holds a later publish without it
C34_Witness ==
    /\ pc_sim = "logic"
    /\ loc_finger_detected
    /\ loc_finger_pos # NoPos
    /\ frame_lock = "free"
    /\ ~shared_finger_detected
    /\ shared_finger_pos = NoPos
    /\ shared_det_pub > loc_det_pub

\* C35: a tick that finds the exit confirmation shown, or the game paused
\* in PLAYING, leaves game_state, the chain (segments, velocity,
\* growth_pending), the item list, score and highscore as they were, and so
\* do the event loop and update_from_shared_state of every tick; the read of
\* the slot still refreshes finger_detected and, when the slot holds a
\* position, last_finger_pos; and a key event handled while the confirmation
\* is shown changes neither paused nor muted
C35_FrozenWhilePausedOrConfirming ==
    [][/\ (/\ pc_sim = "logic"
           /\ pc_sim' # "logic"
           /\ exit_confirmation \/ (game_state = "PLAYING" /\ paused))
              => /\ UNCHANGED <<game_state, segments, velocity, growth_pending,
                                foods, score, highscore>>
                 /\ last_call' \in {"modal", "paused"}
       /\ pc_sim \in {"events", "lock"}
              => UNCHANGED <<game_state, segments, velocity, growth_pending,
                             foods, score, highscore>>
       /\ (pc_sim = "lock" /\ pc_sim' = "logic")
              => /\ finger_detected' = shared_finger_detected
                 /\ shared_finger_pos # NoPos
                        => last_finger_pos' = shared_finger_pos
       /\ (pc_sim = "events" /\ exit_confirmation)
              => (paused' = paused /\ muted' = muted)]_vars

\* a paused tick of a session that read a publish made during the pause
C35_Witness ==
    /\ last_call = "paused"
    /\ game_state = "PLAYING"
    /\ paused
    /\ ~exit_confirmation
    /\ loc_det_pub > 0
    /\ ~finger_detected

\* C36: prev_position changes only in an iteration whose frame shows a
\* finger that is accepted (no previous point, or at most JUMP_THRESHOLD from
\* it), and then to that point; a frame without a hand and a frame whose
\* point is farther than JUMP_THRESHOLD from prev_position leave it as it
\* was, and the point emitted for the latter (the one that is mapped and
\* smoothed) is the unchanged prev_position, published as detected
C36_ReferenceMovesOnlyOnAccept ==
    [][/\ prev_position' # prev_position
              => /\ pub_seq' = pub_seq + 1
                 /\ tracker_new_pos' # NoPos
                 /\ prev_position' = tracker_new_pos'
                 /\ \/ prev_position = NoPos
                    \/ Dist2(tracker_new_pos', prev_position)
                           <= JUMP_THRESHOLD * JUMP_THRESHOLD
       /\ (pub_seq' = pub_seq + 1 /\ tracker_new_pos' = NoPos)
              => prev_position' = prev_position
       /\ (/\ pub_seq' = pub_seq + 1
           /\ tracker_new_pos' # NoPos
           /\ prev_position # NoPos
           /\ Dist2(tracker_new_pos', prev_position)
                  > JUMP_THRESHOLD * JUMP_THRESHOLD)
              => /\ prev_position' = prev_position
                 /\ cam_detected'
                 /\ position_history'
                        = HistoryAppend(position_history,
                                        map_coordinates(prev_position))]_vars

\* four frames with a finger: the first accepted at the centre, the fourth
\* 280 px from it, and the emitted point still the first one, so the second
\* and third were the first point again or rejected
C36_Witness ==
    /\ pub_seq = 4
    /\ prev_position = <<320, 240>>
    /\ tracker_new_pos = <<40, 240>>
    /\ Len(position_history) = 4
    /\ \A i \in 1..4 : position_history[i] = map_coordinates(<<320, 240>>)
    /\ cam_detected

\* C37: every step that takes game_state to PLAYING leaves score = 0 and
\* the chain as Snake.reset lays it out: INITIAL_LENGTH points on the
\* horizontal line through the centre of the playfield, SEGMENT_SPACING
\* apart, the head at the centre, velocity (0, 0), growth_pending = 0 and no
\* boost running, a chain that neither touches itself nor a wall; a start
\* from GAME_OVER also leaves one regular food as the only item and the
\* bonus timer at now + BONUS_FIRST_DELAY
C37_StartResetsSession ==
    [][(game_state # "PLAYING" /\ game_state' = "PLAYING")
          => /\ game_state \in {"MENU", "GAME_OVER"}
             /\ score' = 0
             /\ Len(segments') = INITIAL_LENGTH
             /\ \A i \in 1..INITIAL_LENGTH :
                    /\ segments'[i][1]
                           = (GAME_WIDTH \div 2) * Scale
                             - (i - 1) * SEGMENT_SPACING * Scale
                    /\ segments'[i][2] = (GAME_HEIGHT \div 2) * Scale
             /\ velocity' = <<0, 0>>
             /\ growth_pending' = 0
             /\ ~(now' < speed_boost_end_time')
             /\ get_max_speed(now', speed_boost_end_time') = MAX_SPEED * VelScale
             /\ ~check_self_collision(segments')
             /\ ~check_wall_collision(segments')
             /\ game_state = "GAME_OVER"
                    => /\ Len(foods') = 1
                       /\ ~foods'[1].is_bonus
                       /\ bonus_food_spawn_timer' = now + BONUS_FIRST_DELAY]_vars

\* the tick boundary after a start from GAME_OVER: the session that ended
\* had moved and left its chain elsewhere, the new one starts from the reset
\* chain with the bonus timer re-armed
C37_Witness ==
    /\ pc_sim = "events"
    /\ last_call = "gameover"
    /\ game_state = "PLAYING"
    /\ moves > 0
    /\ score = 0
    /\ velocity = <<0, 0>>
    /\ growth_pending = 0
    /\ segments[1] = <<(GAME_WIDTH \div 2) * Scale, (GAME_HEIGHT \div 2) * Scale>>
    /\ bonus_food_spawn_timer = now + BONUS_FIRST_DELAY
    /\ Len(foods) = 1

\* C38 as stated: when cleanup has released the camera and closed the
\* tracker, camera_loop is not inside an iteration: it has left its loop, or
\* it stands at the loop test that will make it leave
C38_TeardownAfterCameraStopped ==
    pc_sim = "exit" => pc_cam \in {"check", "done"}

====
